---- MODULE Spec2Model ----
(***************************************************************************)
(* DustDB (src/src/main.rs): a line-oriented TCP record store.  One task   *)
(* per accepted connection reads lines, parses the first decoded line as   *)
(* CREATE / PING / FIND, runs it against the filesystem, sends one         *)
(* response line and closes.                                               *)
(*                                                                         *)
(* Text is modelled as what it is on the wire and on disk: a sequence of   *)
(* bytes (UTF-8).  Every literal below is followed by the text it spells.  *)
(***************************************************************************)
EXTENDS Integers, Sequences, FiniteSets, TLC

VARIABLES
    fs,      \* the filesystem: [dirs: set of paths, files: path -> content]
    pc,      \* pc[c]: where the task serving connection slot c stands
    h,       \* h[c]: the locals of that task (line, request, uuid, scan, response)
    sent,    \* sent[c]: lines the client has written on the connection so far
    nread,   \* nread[c]: items the handler has taken from the line stream
    out,     \* out[c]: the response lines written to the client, in order
    listener, \* the accept loop of main: [running: it has not ended,
             \* errors: the accept errors it has printed]
    stored   \* the paths of the record files that the calls of create
             \* that returned Ok have written

vars == <<fs, pc, h, sent, nread, out, listener, stored>>

(***************************************************************************)
(* Bounds of the model.                                                    *)
(***************************************************************************)
\* lines a client may write on one connection
MaxLines == 2

\* accept errors the listener may meet
MaxAcceptErrors == 1

\* connection slots: a slot is reused by a later connection once its task has
\* ended.  Serial: one connection at a time; Conns: two at the same time
Serial == {1}

Conns == {1, 2}

(***************************************************************************)
(* Text literals of the source and of the modelled inputs.                 *)
(***************************************************************************)
\* 'CREATE'
VerbCreate ==
    <<67, 82, 69, 65, 84, 69>>

\* 'PING'
VerbPing ==
    <<80, 73, 78, 71>>

\* 'FIND'
VerbFind ==
    <<70, 73, 78, 68>>

\* 'CREATE must have a pile name specified'
MsgCreateNoPile ==
    <<67, 82, 69, 65, 84, 69, 32, 109, 117, 115, 116, 32, 104, 97, 118, 101, 32, 97, 32, 112, 105, 108, 101, 32, 110, 97, 109, 101, 32, 115, 112, 101, 99, 105, 102, 105, 101, 100>>

\* 'CREATE must have data after the pile name'
MsgCreateNoData ==
    <<67, 82, 69, 65, 84, 69, 32, 109, 117, 115, 116, 32, 104, 97, 118, 101, 32, 100, 97, 116, 97, 32, 97, 102, 116, 101, 114, 32, 116, 104, 101, 32, 112, 105, 108, 101, 32, 110, 97, 109, 101>>

\* 'FIND must have a pile name specified'
MsgFindNoPile ==
    <<70, 73, 78, 68, 32, 109, 117, 115, 116, 32, 104, 97, 118, 101, 32, 97, 32, 112, 105, 108, 101, 32, 110, 97, 109, 101, 32, 115, 112, 101, 99, 105, 102, 105, 101, 100>>

\* 'FIND must have a field name after the pile name'
MsgFindNoField ==
    <<70, 73, 78, 68, 32, 109, 117, 115, 116, 32, 104, 97, 118, 101, 32, 97, 32, 102, 105, 101, 108, 100, 32, 110, 97, 109, 101, 32, 97, 102, 116, 101, 114, 32, 116, 104, 101, 32, 112, 105, 108, 101, 32, 110, 97, 109, 101>>

\* 'FIND must have a compare name after the field name'
MsgFindNoCompare ==
    <<70, 73, 78, 68, 32, 109, 117, 115, 116, 32, 104, 97, 118, 101, 32, 97, 32, 99, 111, 109, 112, 97, 114, 101, 32, 110, 97, 109, 101, 32, 97, 102, 116, 101, 114, 32, 116, 104, 101, 32, 102, 105, 101, 108, 100, 32, 110, 97, 109, 101>>

\* 'Error parsing request, unknown command: '
MsgUnknownCommand ==
    <<69, 114, 114, 111, 114, 32, 112, 97, 114, 115, 105, 110, 103, 32, 114, 101, 113, 117, 101, 115, 116, 44, 32, 117, 110, 107, 110, 111, 119, 110, 32, 99, 111, 109, 109, 97, 110, 100, 58, 32>>

\* 'Error parsing request, empty request'
MsgEmptyRequest ==
    <<69, 114, 114, 111, 114, 32, 112, 97, 114, 115, 105, 110, 103, 32, 114, 101, 113, 117, 101, 115, 116, 44, 32, 101, 109, 112, 116, 121, 32, 114, 101, 113, 117, 101, 115, 116>>

\* 'Error creating database entry: '
MsgCreateFailed ==
    <<69, 114, 114, 111, 114, 32, 99, 114, 101, 97, 116, 105, 110, 103, 32, 100, 97, 116, 97, 98, 97, 115, 101, 32, 101, 110, 116, 114, 121, 58, 32>>

\* 'Error finding database entry: '
MsgFindFailed ==
    <<69, 114, 114, 111, 114, 32, 102, 105, 110, 100, 105, 110, 103, 32, 100, 97, 116, 97, 98, 97, 115, 101, 32, 101, 110, 116, 114, 121, 58, 32>>

\* ' Error: '
ErrorPrefix ==
    <<32, 69, 114, 114, 111, 114, 58, 32>>

\* '/data/'
StorageRoot ==
    <<47, 100, 97, 116, 97, 47>>

\* 'json'
DataFmt ==
    <<106, 115, 111, 110>>

\* '0f8fad5b-d9cb-469f-a165-70867728950e'
Uuid1 ==
    <<48, 102, 56, 102, 97, 100, 53, 98, 45, 100, 57, 99, 98, 45, 52, 54, 57, 102, 45, 97, 49, 54, 53, 45, 55, 48, 56, 54, 55, 55, 50, 56, 57, 53, 48, 101>>

\* '7c9e6679-7425-40de-944b-e07fc1f90ae7'
Uuid2 ==
    <<55, 99, 57, 101, 54, 54, 55, 57, 45, 55, 52, 50, 53, 45, 52, 48, 100, 101, 45, 57, 52, 52, 98, 45, 101, 48, 55, 102, 99, 49, 102, 57, 48, 97, 101, 55>>

\* '{"name":"alice"}'
DocAlice ==
    <<123, 34, 110, 97, 109, 101, 34, 58, 34, 97, 108, 105, 99, 101, 34, 125>>

\* '{"name":"alice","b":1}'
DocAliceB ==
    <<123, 34, 110, 97, 109, 101, 34, 58, 34, 97, 108, 105, 99, 101, 34, 44, 34, 98, 34, 58, 49, 125>>

\* '{"name":1}'
DocNum ==
    <<123, 34, 110, 97, 109, 101, 34, 58, 49, 125>>

\* '{"b":"alice"}'
DocOther ==
    <<123, 34, 98, 34, 58, 34, 97, 108, 105, 99, 101, 34, 125>>

\* '{"name"'
DocBad ==
    <<123, 34, 110, 97, 109, 101, 34>>

\* 'users'
PileUsers ==
    <<117, 115, 101, 114, 115>>

\* 'Users'
PileUsersCap ==
    <<85, 115, 101, 114, 115>>

\* 'other'
PileOther ==
    <<111, 116, 104, 101, 114>>

\* '..'
PileDotDot ==
    <<46, 46>>

\* '../x'
PileUp ==
    <<46, 46, 47, 120>>

\* 'a/b'
PileNested ==
    <<97, 47, 98>>

\* 'a'
PileA ==
    <<97>>

\* 'École'
PileEcoleCap ==
    <<195, 137, 99, 111, 108, 101>>

\* 'école'
PileEcole ==
    <<195, 169, 99, 111, 108, 101>>

\* 'ΣΑΣ'
PileSigmaCap ==
    <<206, 163, 206, 145, 206, 163>>

\* 'σας'
PileSigma ==
    <<207, 131, 206, 177, 207, 130>>

\* 'n', a NUL byte, 'l'
PileNul ==
    <<110, 0, 108>>

\* '0f8fad5b-d9cb-469f-a165-70867728950e.json'
PileFile ==
    <<48, 102, 56, 102, 97, 100, 53, 98, 45, 100, 57, 99, 98, 45, 52, 54, 57, 102, 45, 97, 49, 54, 53, 45, 55, 48, 56, 54, 55, 55, 50, 56, 57, 53, 48, 101, 46, 106, 115, 111, 110>>

\* 'nope/../0f8fad5b-d9cb-469f-a165-70867728950e.json'
PileBesideFile ==
    <<110, 111, 112, 101, 47, 46, 46, 47, 48, 102, 56, 102, 97, 100, 53, 98, 45, 100, 57, 99, 98, 45, 52, 54, 57, 102, 45, 97, 49, 54, 53, 45, 55, 48, 56, 54, 55, 55, 50, 56, 57, 53, 48, 101, 46, 106, 115, 111, 110>>

\* '.'
PileDot ==
    <<46>>

\* 'new/.'
PileNewDot ==
    <<110, 101, 119, 47, 46>>

\* 'users/.'
PileUsersDot ==
    <<117, 115, 101, 114, 115, 47, 46>>

\* '0f8fad5b-d9cb-469f-a165-70867728950e.json/.'
PileFileDot ==
    <<48, 102, 56, 102, 97, 100, 53, 98, 45, 100, 57, 99, 98, 45, 52, 54, 57, 102, 45, 97, 49, 54, 53, 45, 55, 48, 56, 54, 55, 55, 50, 56, 57, 53, 48, 101, 46, 106, 115, 111, 110, 47, 46>>

\* a name of 256 bytes, one more than a file name may have
PileLong == [i \in 1..256 |-> 97]

\* 'name'
FieldName ==
    <<110, 97, 109, 101>>

\* 'alice'
CmpAlice ==
    <<97, 108, 105, 99, 101>>

\* 'bob'
CmpBob ==
    <<98, 111, 98>>

\* 'Alice'
CmpAliceCap ==
    <<65, 108, 105, 99, 101>>

\* 'ali'
CmpAli ==
    <<97, 108, 105>>

\* 'FOO'
WordFoo ==
    <<70, 79, 79>>

\* 'Invalid hex payload': stands for the message of the error of
\* dustcfg::decode_hex_to_utf8, whose text is not in this repository
TextInvalidPayload ==
    <<73, 110, 118, 97, 108, 105, 100, 32, 104, 101, 120, 32, 112, 97, 121, 108, 111, 97, 100>>

\* 'File exists (os error 17)'
TextFileExists ==
    <<70, 105, 108, 101, 32, 101, 120, 105, 115, 116, 115, 32, 40, 111, 115, 32, 101, 114, 114, 111, 114, 32, 49, 55, 41>>

\* 'File name too long (os error 36)'
TextNameTooLong ==
    <<70, 105, 108, 101, 32, 110, 97, 109, 101, 32, 116, 111, 111, 32, 108, 111, 110, 103, 32, 40, 111, 115, 32, 101, 114, 114, 111, 114, 32, 51, 54, 41>>

\* 'file name contained an unexpected NUL byte'
TextNulByte ==
    <<102, 105, 108, 101, 32, 110, 97, 109, 101, 32, 99, 111, 110, 116, 97, 105, 110, 101, 100, 32, 97, 110, 32, 117, 110, 101, 120, 112, 101, 99, 116, 101, 100, 32, 78, 85, 76, 32, 98, 121, 116, 101>>

\* 'stream did not contain valid UTF-8'
TextInvalidUtf8 ==
    <<115, 116, 114, 101, 97, 109, 32, 100, 105, 100, 32, 110, 111, 116, 32, 99, 111, 110, 116, 97, 105, 110, 32, 118, 97, 108, 105, 100, 32, 85, 84, 70, 45, 56>>

\* 'Is a directory (os error 21)'
TextIsADirectory ==
    <<73, 115, 32, 97, 32, 100, 105, 114, 101, 99, 116, 111, 114, 121, 32, 40, 111, 115, 32, 101, 114, 114, 111, 114, 32, 50, 49, 41>>

\* 'Not a directory (os error 20)'
TextNotADirectory ==
    <<78, 111, 116, 32, 97, 32, 100, 105, 114, 101, 99, 116, 111, 114, 121, 32, 40, 111, 115, 32, 101, 114, 114, 111, 114, 32, 50, 48, 41>>

\* 'No such file or directory (os error 2)'
TextNotFound ==
    <<78, 111, 32, 115, 117, 99, 104, 32, 102, 105, 108, 101, 32, 111, 114, 32, 100, 105, 114, 101, 99, 116, 111, 114, 121, 32, 40, 111, 115, 32, 101, 114, 114, 111, 114, 32, 50, 41>>

\* 'zz'
HexNotHex ==
    <<122, 122>>

\* '7b2'
HexOdd ==
    <<55, 98, 50>>

(***************************************************************************)
(* Option values and iterators.                                            *)
(***************************************************************************)
\* Option::None
None == <<>>

\* Option::Some(x)
Some(x) == <<x>>

\* position of the first byte b in s between lo and hi, 0 when there is
\* none
IndexIn(s, b, lo, hi) ==
    LET found == {i \in lo..hi : s[i] = b} IN
    IF found = {} THEN 0
    ELSE CHOOSE i \in found : \A j \in found : i <= j

\* position of the first byte b in s at or after i, 0 when there is none
IndexOf(s, b, i) == IndexIn(s, b, i, Len(s))

\* str::splitn(n, sep): at most n pieces, the last one taking the remainder
\* of the text verbatim; a text without sep (the empty text too) is one piece
RECURSIVE splitn(_, _, _)
splitn(s, n, sep) ==
    LET i == IndexOf(s, sep, 1) IN
    IF n <= 1 \/ i = 0 THEN <<s>>
    ELSE <<SubSeq(s, 1, i - 1)>> \o splitn(SubSeq(s, i + 1, Len(s)), n - 1, sep)

\* Iterator::next() at the k-th call on the pieces of a splitn
IterNext(parts, k) == IF k <= Len(parts) THEN Some(parts[k]) ELSE None

(***************************************************************************)
(* str::to_lowercase.  The tables are those of the Unicode Character       *)
(* Database (UnicodeData.txt, SpecialCasing.txt, DerivedCoreProperties.txt,*)
(* version 17.0.0) from which core::unicode is generated.                 *)
(***************************************************************************)
\* the simple lowercase mappings: <<first, last, step, delta>> maps every
\* step-th character from first to last to the character delta further
LowercaseTable ==
    <<
       <<65, 90, 1, 32>>, <<192, 214, 1, 32>>, <<216, 222, 1, 32>>,
       <<256, 302, 2, 1>>, <<306, 310, 2, 1>>, <<313, 327, 2, 1>>,
       <<330, 374, 2, 1>>, <<376, 376, 1, -121>>, <<377, 381, 2, 1>>,
       <<385, 385, 1, 210>>, <<386, 388, 2, 1>>, <<390, 390, 1, 206>>,
       <<391, 391, 1, 1>>, <<393, 394, 1, 205>>, <<395, 395, 1, 1>>,
       <<398, 398, 1, 79>>, <<399, 399, 1, 202>>, <<400, 400, 1, 203>>,
       <<401, 401, 1, 1>>, <<403, 403, 1, 205>>, <<404, 404, 1, 207>>,
       <<406, 406, 1, 211>>, <<407, 407, 1, 209>>, <<408, 408, 1, 1>>,
       <<412, 412, 1, 211>>, <<413, 413, 1, 213>>, <<415, 415, 1, 214>>,
       <<416, 420, 2, 1>>, <<422, 422, 1, 218>>, <<423, 423, 1, 1>>,
       <<425, 425, 1, 218>>, <<428, 428, 1, 1>>, <<430, 430, 1, 218>>,
       <<431, 431, 1, 1>>, <<433, 434, 1, 217>>, <<435, 437, 2, 1>>,
       <<439, 439, 1, 219>>, <<440, 440, 1, 1>>, <<444, 444, 1, 1>>,
       <<452, 452, 1, 2>>, <<453, 453, 1, 1>>, <<455, 455, 1, 2>>,
       <<456, 456, 1, 1>>, <<458, 458, 1, 2>>, <<459, 475, 2, 1>>,
       <<478, 494, 2, 1>>, <<497, 497, 1, 2>>, <<498, 500, 2, 1>>,
       <<502, 502, 1, -97>>, <<503, 503, 1, -56>>, <<504, 542, 2, 1>>,
       <<544, 544, 1, -130>>, <<546, 562, 2, 1>>, <<570, 570, 1, 10795>>,
       <<571, 571, 1, 1>>, <<573, 573, 1, -163>>, <<574, 574, 1, 10792>>,
       <<577, 577, 1, 1>>, <<579, 579, 1, -195>>, <<580, 580, 1, 69>>,
       <<581, 581, 1, 71>>, <<582, 590, 2, 1>>, <<880, 882, 2, 1>>,
       <<886, 886, 1, 1>>, <<895, 895, 1, 116>>, <<902, 902, 1, 38>>,
       <<904, 906, 1, 37>>, <<908, 908, 1, 64>>, <<910, 911, 1, 63>>,
       <<913, 929, 1, 32>>, <<931, 939, 1, 32>>, <<975, 975, 1, 8>>,
       <<984, 1006, 2, 1>>, <<1012, 1012, 1, -60>>, <<1015, 1015, 1, 1>>,
       <<1017, 1017, 1, -7>>, <<1018, 1018, 1, 1>>, <<1021, 1023, 1, -130>>,
       <<1024, 1039, 1, 80>>, <<1040, 1071, 1, 32>>, <<1120, 1152, 2, 1>>,
       <<1162, 1214, 2, 1>>, <<1216, 1216, 1, 15>>, <<1217, 1229, 2, 1>>,
       <<1232, 1326, 2, 1>>, <<1329, 1366, 1, 48>>, <<4256, 4293, 1, 7264>>,
       <<4295, 4295, 1, 7264>>, <<4301, 4301, 1, 7264>>, <<5024, 5103, 1, 38864>>,
       <<5104, 5109, 1, 8>>, <<7305, 7305, 1, 1>>, <<7312, 7354, 1, -3008>>,
       <<7357, 7359, 1, -3008>>, <<7680, 7828, 2, 1>>, <<7838, 7838, 1, -7615>>,
       <<7840, 7934, 2, 1>>, <<7944, 7951, 1, -8>>, <<7960, 7965, 1, -8>>,
       <<7976, 7983, 1, -8>>, <<7992, 7999, 1, -8>>, <<8008, 8013, 1, -8>>,
       <<8025, 8031, 2, -8>>, <<8040, 8047, 1, -8>>, <<8072, 8079, 1, -8>>,
       <<8088, 8095, 1, -8>>, <<8104, 8111, 1, -8>>, <<8120, 8121, 1, -8>>,
       <<8122, 8123, 1, -74>>, <<8124, 8124, 1, -9>>, <<8136, 8139, 1, -86>>,
       <<8140, 8140, 1, -9>>, <<8152, 8153, 1, -8>>, <<8154, 8155, 1, -100>>,
       <<8168, 8169, 1, -8>>, <<8170, 8171, 1, -112>>, <<8172, 8172, 1, -7>>,
       <<8184, 8185, 1, -128>>, <<8186, 8187, 1, -126>>, <<8188, 8188, 1, -9>>,
       <<8486, 8486, 1, -7517>>, <<8490, 8490, 1, -8383>>, <<8491, 8491, 1, -8262>>,
       <<8498, 8498, 1, 28>>, <<8544, 8559, 1, 16>>, <<8579, 8579, 1, 1>>,
       <<9398, 9423, 1, 26>>, <<11264, 11311, 1, 48>>, <<11360, 11360, 1, 1>>,
       <<11362, 11362, 1, -10743>>, <<11363, 11363, 1, -3814>>, <<11364, 11364, 1, -10727>>,
       <<11367, 11371, 2, 1>>, <<11373, 11373, 1, -10780>>, <<11374, 11374, 1, -10749>>,
       <<11375, 11375, 1, -10783>>, <<11376, 11376, 1, -10782>>, <<11378, 11378, 1, 1>>,
       <<11381, 11381, 1, 1>>, <<11390, 11391, 1, -10815>>, <<11392, 11490, 2, 1>>,
       <<11499, 11501, 2, 1>>, <<11506, 11506, 1, 1>>, <<42560, 42604, 2, 1>>,
       <<42624, 42650, 2, 1>>, <<42786, 42798, 2, 1>>, <<42802, 42862, 2, 1>>,
       <<42873, 42875, 2, 1>>, <<42877, 42877, 1, -35332>>, <<42878, 42886, 2, 1>>,
       <<42891, 42891, 1, 1>>, <<42893, 42893, 1, -42280>>, <<42896, 42898, 2, 1>>,
       <<42902, 42920, 2, 1>>, <<42922, 42922, 1, -42308>>, <<42923, 42923, 1, -42319>>,
       <<42924, 42924, 1, -42315>>, <<42925, 42925, 1, -42305>>, <<42926, 42926, 1, -42308>>,
       <<42928, 42928, 1, -42258>>, <<42929, 42929, 1, -42282>>, <<42930, 42930, 1, -42261>>,
       <<42931, 42931, 1, 928>>, <<42932, 42946, 2, 1>>, <<42948, 42948, 1, -48>>,
       <<42949, 42949, 1, -42307>>, <<42950, 42950, 1, -35384>>, <<42951, 42953, 2, 1>>,
       <<42955, 42955, 1, -42343>>, <<42956, 42970, 2, 1>>, <<42972, 42972, 1, -42561>>,
       <<42997, 42997, 1, 1>>, <<65313, 65338, 1, 32>>, <<66560, 66599, 1, 40>>,
       <<66736, 66771, 1, 40>>, <<66928, 66938, 1, 39>>, <<66940, 66954, 1, 39>>,
       <<66956, 66962, 1, 39>>, <<66964, 66965, 1, 39>>, <<68736, 68786, 1, 64>>,
       <<68944, 68965, 1, 32>>, <<71840, 71871, 1, 32>>, <<93760, 93791, 1, 32>>,
       <<93856, 93880, 1, 27>>, <<125184, 125217, 1, 34>>
    >>

\* the characters with the property Case_Ignorable: <<first, last>>
CaseIgnorableTable ==
    <<
       <<39, 39>>, <<46, 46>>, <<58, 58>>, <<94, 94>>, <<96, 96>>,
       <<168, 168>>, <<173, 173>>, <<175, 175>>, <<180, 180>>, <<183, 184>>,
       <<688, 879>>, <<884, 885>>, <<890, 890>>, <<900, 901>>, <<903, 903>>,
       <<1155, 1161>>, <<1369, 1369>>, <<1375, 1375>>, <<1425, 1469>>, <<1471, 1471>>,
       <<1473, 1474>>, <<1476, 1477>>, <<1479, 1479>>, <<1524, 1524>>, <<1536, 1541>>,
       <<1552, 1562>>, <<1564, 1564>>, <<1600, 1600>>, <<1611, 1631>>, <<1648, 1648>>,
       <<1750, 1757>>, <<1759, 1768>>, <<1770, 1773>>, <<1807, 1807>>, <<1809, 1809>>,
       <<1840, 1866>>, <<1958, 1968>>, <<2027, 2037>>, <<2042, 2042>>, <<2045, 2045>>,
       <<2070, 2093>>, <<2137, 2139>>, <<2184, 2184>>, <<2192, 2193>>, <<2199, 2207>>,
       <<2249, 2306>>, <<2362, 2362>>, <<2364, 2364>>, <<2369, 2376>>, <<2381, 2381>>,
       <<2385, 2391>>, <<2402, 2403>>, <<2417, 2417>>, <<2433, 2433>>, <<2492, 2492>>,
       <<2497, 2500>>, <<2509, 2509>>, <<2530, 2531>>, <<2558, 2558>>, <<2561, 2562>>,
       <<2620, 2620>>, <<2625, 2626>>, <<2631, 2632>>, <<2635, 2637>>, <<2641, 2641>>,
       <<2672, 2673>>, <<2677, 2677>>, <<2689, 2690>>, <<2748, 2748>>, <<2753, 2757>>,
       <<2759, 2760>>, <<2765, 2765>>, <<2786, 2787>>, <<2810, 2815>>, <<2817, 2817>>,
       <<2876, 2876>>, <<2879, 2879>>, <<2881, 2884>>, <<2893, 2893>>, <<2901, 2902>>,
       <<2914, 2915>>, <<2946, 2946>>, <<3008, 3008>>, <<3021, 3021>>, <<3072, 3072>>,
       <<3076, 3076>>, <<3132, 3132>>, <<3134, 3136>>, <<3142, 3144>>, <<3146, 3149>>,
       <<3157, 3158>>, <<3170, 3171>>, <<3201, 3201>>, <<3260, 3260>>, <<3263, 3263>>,
       <<3270, 3270>>, <<3276, 3277>>, <<3298, 3299>>, <<3328, 3329>>, <<3387, 3388>>,
       <<3393, 3396>>, <<3405, 3405>>, <<3426, 3427>>, <<3457, 3457>>, <<3530, 3530>>,
       <<3538, 3540>>, <<3542, 3542>>, <<3633, 3633>>, <<3636, 3642>>, <<3654, 3662>>,
       <<3761, 3761>>, <<3764, 3772>>, <<3782, 3782>>, <<3784, 3790>>, <<3864, 3865>>,
       <<3893, 3893>>, <<3895, 3895>>, <<3897, 3897>>, <<3953, 3966>>, <<3968, 3972>>,
       <<3974, 3975>>, <<3981, 3991>>, <<3993, 4028>>, <<4038, 4038>>, <<4141, 4144>>,
       <<4146, 4151>>, <<4153, 4154>>, <<4157, 4158>>, <<4184, 4185>>, <<4190, 4192>>,
       <<4209, 4212>>, <<4226, 4226>>, <<4229, 4230>>, <<4237, 4237>>, <<4253, 4253>>,
       <<4348, 4348>>, <<4957, 4959>>, <<5906, 5908>>, <<5938, 5939>>, <<5970, 5971>>,
       <<6002, 6003>>, <<6068, 6069>>, <<6071, 6077>>, <<6086, 6086>>, <<6089, 6099>>,
       <<6103, 6103>>, <<6109, 6109>>, <<6155, 6159>>, <<6211, 6211>>, <<6277, 6278>>,
       <<6313, 6313>>, <<6432, 6434>>, <<6439, 6440>>, <<6450, 6450>>, <<6457, 6459>>,
       <<6679, 6680>>, <<6683, 6683>>, <<6742, 6742>>, <<6744, 6750>>, <<6752, 6752>>,
       <<6754, 6754>>, <<6757, 6764>>, <<6771, 6780>>, <<6783, 6783>>, <<6823, 6823>>,
       <<6832, 6877>>, <<6880, 6891>>, <<6912, 6915>>, <<6964, 6964>>, <<6966, 6970>>,
       <<6972, 6972>>, <<6978, 6978>>, <<7019, 7027>>, <<7040, 7041>>, <<7074, 7077>>,
       <<7080, 7081>>, <<7083, 7085>>, <<7142, 7142>>, <<7144, 7145>>, <<7149, 7149>>,
       <<7151, 7153>>, <<7212, 7219>>, <<7222, 7223>>, <<7288, 7293>>, <<7376, 7378>>,
       <<7380, 7392>>, <<7394, 7400>>, <<7405, 7405>>, <<7412, 7412>>, <<7416, 7417>>,
       <<7468, 7530>>, <<7544, 7544>>, <<7579, 7679>>, <<8125, 8125>>, <<8127, 8129>>,
       <<8141, 8143>>, <<8157, 8159>>, <<8173, 8175>>, <<8189, 8190>>, <<8203, 8207>>,
       <<8216, 8217>>, <<8228, 8228>>, <<8231, 8231>>, <<8234, 8238>>, <<8288, 8292>>,
       <<8294, 8303>>, <<8305, 8305>>, <<8319, 8319>>, <<8336, 8348>>, <<8400, 8432>>,
       <<11388, 11389>>, <<11503, 11505>>, <<11631, 11631>>, <<11647, 11647>>, <<11744, 11775>>,
       <<11823, 11823>>, <<12293, 12293>>, <<12330, 12333>>, <<12337, 12341>>, <<12347, 12347>>,
       <<12441, 12446>>, <<12540, 12542>>, <<40981, 40981>>, <<42232, 42237>>, <<42508, 42508>>,
       <<42607, 42610>>, <<42612, 42621>>, <<42623, 42623>>, <<42652, 42655>>, <<42736, 42737>>,
       <<42752, 42785>>, <<42864, 42864>>, <<42888, 42890>>, <<42993, 42996>>, <<43000, 43001>>,
       <<43010, 43010>>, <<43014, 43014>>, <<43019, 43019>>, <<43045, 43046>>, <<43052, 43052>>,
       <<43204, 43205>>, <<43232, 43249>>, <<43263, 43263>>, <<43302, 43309>>, <<43335, 43345>>,
       <<43392, 43394>>, <<43443, 43443>>, <<43446, 43449>>, <<43452, 43453>>, <<43471, 43471>>,
       <<43493, 43494>>, <<43561, 43566>>, <<43569, 43570>>, <<43573, 43574>>, <<43587, 43587>>,
       <<43596, 43596>>, <<43632, 43632>>, <<43644, 43644>>, <<43696, 43696>>, <<43698, 43700>>,
       <<43703, 43704>>, <<43710, 43711>>, <<43713, 43713>>, <<43741, 43741>>, <<43756, 43757>>,
       <<43763, 43764>>, <<43766, 43766>>, <<43867, 43871>>, <<43881, 43883>>, <<44005, 44005>>,
       <<44008, 44008>>, <<44013, 44013>>, <<64286, 64286>>, <<64434, 64450>>, <<65024, 65039>>,
       <<65043, 65043>>, <<65056, 65071>>, <<65106, 65106>>, <<65109, 65109>>, <<65279, 65279>>,
       <<65287, 65287>>, <<65294, 65294>>, <<65306, 65306>>, <<65342, 65342>>, <<65344, 65344>>,
       <<65392, 65392>>, <<65438, 65439>>, <<65507, 65507>>, <<65529, 65531>>, <<66045, 66045>>,
       <<66272, 66272>>, <<66422, 66426>>, <<67456, 67461>>, <<67463, 67504>>, <<67506, 67514>>,
       <<68097, 68099>>, <<68101, 68102>>, <<68108, 68111>>, <<68152, 68154>>, <<68159, 68159>>,
       <<68325, 68326>>, <<68900, 68903>>, <<68942, 68942>>, <<68969, 68973>>, <<68975, 68975>>,
       <<69291, 69292>>, <<69317, 69317>>, <<69370, 69375>>, <<69446, 69456>>, <<69506, 69509>>,
       <<69633, 69633>>, <<69688, 69702>>, <<69744, 69744>>, <<69747, 69748>>, <<69759, 69761>>,
       <<69811, 69814>>, <<69817, 69818>>, <<69821, 69821>>, <<69826, 69826>>, <<69837, 69837>>,
       <<69888, 69890>>, <<69927, 69931>>, <<69933, 69940>>, <<70003, 70003>>, <<70016, 70017>>,
       <<70070, 70078>>, <<70089, 70092>>, <<70095, 70095>>, <<70191, 70193>>, <<70196, 70196>>,
       <<70198, 70199>>, <<70206, 70206>>, <<70209, 70209>>, <<70367, 70367>>, <<70371, 70378>>,
       <<70400, 70401>>, <<70459, 70460>>, <<70464, 70464>>, <<70502, 70508>>, <<70512, 70516>>,
       <<70587, 70592>>, <<70606, 70606>>, <<70608, 70608>>, <<70610, 70610>>, <<70625, 70626>>,
       <<70712, 70719>>, <<70722, 70724>>, <<70726, 70726>>, <<70750, 70750>>, <<70835, 70840>>,
       <<70842, 70842>>, <<70847, 70848>>, <<70850, 70851>>, <<71090, 71093>>, <<71100, 71101>>,
       <<71103, 71104>>, <<71132, 71133>>, <<71219, 71226>>, <<71229, 71229>>, <<71231, 71232>>,
       <<71339, 71339>>, <<71341, 71341>>, <<71344, 71349>>, <<71351, 71351>>, <<71453, 71453>>,
       <<71455, 71455>>, <<71458, 71461>>, <<71463, 71467>>, <<71727, 71735>>, <<71737, 71738>>,
       <<71995, 71996>>, <<71998, 71998>>, <<72003, 72003>>, <<72148, 72151>>, <<72154, 72155>>,
       <<72160, 72160>>, <<72193, 72202>>, <<72243, 72248>>, <<72251, 72254>>, <<72263, 72263>>,
       <<72273, 72278>>, <<72281, 72283>>, <<72330, 72342>>, <<72344, 72345>>, <<72544, 72544>>,
       <<72546, 72548>>, <<72550, 72550>>, <<72752, 72758>>, <<72760, 72765>>, <<72767, 72767>>,
       <<72850, 72871>>, <<72874, 72880>>, <<72882, 72883>>, <<72885, 72886>>, <<73009, 73014>>,
       <<73018, 73018>>, <<73020, 73021>>, <<73023, 73029>>, <<73031, 73031>>, <<73104, 73105>>,
       <<73109, 73109>>, <<73111, 73111>>, <<73177, 73177>>, <<73459, 73460>>, <<73472, 73473>>,
       <<73526, 73530>>, <<73536, 73536>>, <<73538, 73538>>, <<73562, 73562>>, <<78896, 78912>>,
       <<78919, 78933>>, <<90398, 90409>>, <<90413, 90415>>, <<92912, 92916>>, <<92976, 92982>>,
       <<92992, 92995>>, <<93504, 93506>>, <<93547, 93548>>, <<94031, 94031>>, <<94095, 94111>>,
       <<94176, 94177>>, <<94179, 94180>>, <<94194, 94195>>, <<110576, 110579>>, <<110581, 110587>>,
       <<110589, 110590>>, <<113821, 113822>>, <<113824, 113827>>, <<118528, 118573>>, <<118576, 118598>>,
       <<119143, 119145>>, <<119155, 119170>>, <<119173, 119179>>, <<119210, 119213>>, <<119362, 119364>>,
       <<121344, 121398>>, <<121403, 121452>>, <<121461, 121461>>, <<121476, 121476>>, <<121499, 121503>>,
       <<121505, 121519>>, <<122880, 122886>>, <<122888, 122904>>, <<122907, 122913>>, <<122915, 122916>>,
       <<122918, 122922>>, <<122928, 122989>>, <<123023, 123023>>, <<123184, 123197>>, <<123566, 123566>>,
       <<123628, 123631>>, <<124139, 124143>>, <<124398, 124399>>, <<124643, 124643>>, <<124646, 124646>>,
       <<124654, 124655>>, <<124661, 124661>>, <<124671, 124671>>, <<125136, 125142>>, <<125252, 125259>>,
       <<127995, 127999>>, <<917505, 917505>>, <<917536, 917631>>, <<917760, 917999>>
    >>

\* the characters with the property Cased that are not Case_Ignorable:
\* <<first, last>>
CasedTable ==
    <<
       <<65, 90>>, <<97, 122>>, <<170, 170>>, <<181, 181>>, <<186, 186>>,
       <<192, 214>>, <<216, 246>>, <<248, 442>>, <<444, 447>>, <<452, 659>>,
       <<662, 687>>, <<880, 883>>, <<886, 887>>, <<891, 893>>, <<895, 895>>,
       <<902, 902>>, <<904, 906>>, <<908, 908>>, <<910, 929>>, <<931, 1013>>,
       <<1015, 1153>>, <<1162, 1327>>, <<1329, 1366>>, <<1376, 1416>>, <<4256, 4293>>,
       <<4295, 4295>>, <<4301, 4301>>, <<4304, 4346>>, <<4349, 4351>>, <<5024, 5109>>,
       <<5112, 5117>>, <<7296, 7306>>, <<7312, 7354>>, <<7357, 7359>>, <<7424, 7467>>,
       <<7531, 7543>>, <<7545, 7578>>, <<7680, 7957>>, <<7960, 7965>>, <<7968, 8005>>,
       <<8008, 8013>>, <<8016, 8023>>, <<8025, 8025>>, <<8027, 8027>>, <<8029, 8029>>,
       <<8031, 8061>>, <<8064, 8116>>, <<8118, 8124>>, <<8126, 8126>>, <<8130, 8132>>,
       <<8134, 8140>>, <<8144, 8147>>, <<8150, 8155>>, <<8160, 8172>>, <<8178, 8180>>,
       <<8182, 8188>>, <<8450, 8450>>, <<8455, 8455>>, <<8458, 8467>>, <<8469, 8469>>,
       <<8473, 8477>>, <<8484, 8484>>, <<8486, 8486>>, <<8488, 8488>>, <<8490, 8493>>,
       <<8495, 8500>>, <<8505, 8505>>, <<8508, 8511>>, <<8517, 8521>>, <<8526, 8526>>,
       <<8544, 8575>>, <<8579, 8580>>, <<9398, 9449>>, <<11264, 11387>>, <<11390, 11492>>,
       <<11499, 11502>>, <<11506, 11507>>, <<11520, 11557>>, <<11559, 11559>>, <<11565, 11565>>,
       <<42560, 42605>>, <<42624, 42651>>, <<42786, 42863>>, <<42865, 42887>>, <<42891, 42894>>,
       <<42896, 42972>>, <<42997, 42998>>, <<43002, 43002>>, <<43824, 43866>>, <<43872, 43880>>,
       <<43888, 43967>>, <<64256, 64262>>, <<64275, 64279>>, <<65313, 65338>>, <<65345, 65370>>,
       <<66560, 66639>>, <<66736, 66771>>, <<66776, 66811>>, <<66928, 66938>>, <<66940, 66954>>,
       <<66956, 66962>>, <<66964, 66965>>, <<66967, 66977>>, <<66979, 66993>>, <<66995, 67001>>,
       <<67003, 67004>>, <<68736, 68786>>, <<68800, 68850>>, <<68944, 68965>>, <<68976, 68997>>,
       <<71840, 71903>>, <<93760, 93823>>, <<93856, 93880>>, <<93883, 93907>>, <<119808, 119892>>,
       <<119894, 119964>>, <<119966, 119967>>, <<119970, 119970>>, <<119973, 119974>>, <<119977, 119980>>,
       <<119982, 119993>>, <<119995, 119995>>, <<119997, 120003>>, <<120005, 120069>>, <<120071, 120074>>,
       <<120077, 120084>>, <<120086, 120092>>, <<120094, 120121>>, <<120123, 120126>>, <<120128, 120132>>,
       <<120134, 120134>>, <<120138, 120144>>, <<120146, 120485>>, <<120488, 120512>>, <<120514, 120538>>,
       <<120540, 120570>>, <<120572, 120596>>, <<120598, 120628>>, <<120630, 120654>>, <<120656, 120686>>,
       <<120688, 120712>>, <<120714, 120744>>, <<120746, 120770>>, <<120772, 120779>>, <<122624, 122633>>,
       <<122635, 122654>>, <<122661, 122666>>, <<125184, 125251>>, <<127280, 127305>>, <<127312, 127337>>,
       <<127344, 127369>>
    >>

\* char::encode_utf8
EncodeUtf8(n) ==
    IF n < 128 THEN <<n>>
    ELSE IF n < 2048 THEN <<192 + (n \div 64), 128 + (n % 64)>>
    ELSE IF n < 65536
         THEN <<224 + (n \div 4096), 128 + ((n \div 64) % 64), 128 + (n % 64)>>
    ELSE <<240 + (n \div 262144), 128 + ((n \div 4096) % 64),
           128 + ((n \div 64) % 64), 128 + (n % 64)>>

\* the character of a UTF-8 text whose first byte is at position i
CharAt(s, i) ==
    LET b == s[i] IN
    IF b < 128 THEN b
    ELSE IF b < 224 THEN (b - 192) * 64 + (s[i + 1] - 128)
    ELSE IF b < 240
         THEN (b - 224) * 4096 + (s[i + 1] - 128) * 64 + (s[i + 2] - 128)
    ELSE (b - 240) * 262144 + (s[i + 1] - 128) * 4096
           + (s[i + 2] - 128) * 64 + (s[i + 3] - 128)

\* the characters of a UTF-8 text that begin at the bytes lo..hi, in order;
\* the bytes 128..191 continue a character
RECURSIVE CharsIn(_, _, _)
CharsIn(s, lo, hi) ==
    IF lo > hi THEN <<>>
    ELSE IF lo = hi
         THEN (IF s[lo] >= 128 /\ s[lo] <= 191 THEN <<>> ELSE <<CharAt(s, lo)>>)
    ELSE LET mid == (lo + hi) \div 2 IN
         CharsIn(s, lo, mid) \o CharsIn(s, mid + 1, hi)

\* str::chars: the characters of a UTF-8 text, from byte i on
Chars(s, i) == CharsIn(s, i, Len(s))

\* c is in one of the ranges of the table
InTable(c, table) ==
    \E k \in 1..Len(table) : table[k][1] <= c /\ c <= table[k][2]

\* char::to_lowercase: the characters c becomes.  U+0130 is the one
\* character that becomes two
to_lower(c) ==
    IF c < 128 THEN (IF c >= 65 /\ c <= 90 THEN <<c + 32>> ELSE <<c>>)
    ELSE IF c = 304 THEN <<105, 775>>
    ELSE LET hits == {k \in 1..Len(LowercaseTable) :
                        /\ LowercaseTable[k][1] <= c /\ c <= LowercaseTable[k][2]
                        /\ (c - LowercaseTable[k][1]) % LowercaseTable[k][3] = 0}
         IN  IF hits = {} THEN <<c>>
             ELSE <<c + LowercaseTable[CHOOSE k \in hits : TRUE][4]>>

\* case_ignorable_then_cased: after the Case_Ignorable characters at the
\* head of cs comes a Cased one
RECURSIVE case_ignorable_then_cased(_)
case_ignorable_then_cased(cs) ==
    IF cs = <<>> THEN FALSE
    ELSE IF InTable(Head(cs), CaseIgnorableTable)
         THEN case_ignorable_then_cased(Tail(cs))
    ELSE InTable(Head(cs), CasedTable)

\* map_uppercase_sigma: the capital sigma at position i of cs becomes the
\* final sigma at the end of a word, the small sigma elsewhere
map_uppercase_sigma(cs, i) ==
    LET before == [k \in 1..(i - 1) |-> cs[i - k]]
        after == SubSeq(cs, i + 1, Len(cs))
    IN  IF case_ignorable_then_cased(before) /\ ~case_ignorable_then_cased(after)
        THEN <<962>> ELSE <<963>>

\* the UTF-8 text of the characters lo..hi of cs
RECURSIVE Utf8In(_, _, _)
Utf8In(cs, lo, hi) ==
    IF lo > hi THEN <<>>
    ELSE IF lo = hi THEN EncodeUtf8(cs[lo])
    ELSE LET mid == (lo + hi) \div 2 IN
         Utf8In(cs, lo, mid) \o Utf8In(cs, mid + 1, hi)

\* the UTF-8 text of the characters cs
Utf8Of(cs) == Utf8In(cs, 1, Len(cs))

\* the lowercase of the characters lo..hi of cs
RECURSIVE LowerIn(_, _, _)
LowerIn(cs, lo, hi) ==
    IF lo > hi THEN <<>>
    ELSE IF lo = hi
         THEN (IF cs[lo] = 931 THEN map_uppercase_sigma(cs, lo)
               ELSE to_lower(cs[lo]))
    ELSE LET mid == (lo + hi) \div 2 IN
         LowerIn(cs, lo, mid) \o LowerIn(cs, mid + 1, hi)

\* the lowercase of the characters of cs from position i on
LowerFrom(cs, i) == LowerIn(cs, i, Len(cs))

\* a parser that keeps the pile name as the client wrote it
to_lowercase_Kept(s) == s

\* str::to_lowercase
to_lowercase(s) == Utf8Of(LowerFrom(Chars(s, 1), 1))

(***************************************************************************)
(* Request and Request::parse.                                             *)
(***************************************************************************)
NoRequest ==
    [kind |-> "None", pile |-> <<>>, data |-> <<>>, field |-> <<>>, compare |-> <<>>]

\* Request::Create { pile, data }
RequestCreate(pile, data) ==
    [kind |-> "Create", pile |-> pile, data |-> data, field |-> <<>>, compare |-> <<>>]

\* Request::Ping {}
RequestPing ==
    [kind |-> "Ping", pile |-> <<>>, data |-> <<>>, field |-> <<>>, compare |-> <<>>]

\* Request::Find { pile, field, compare }
RequestFind(pile, field, compare) ==
    [kind |-> "Find", pile |-> pile, data |-> <<>>, field |-> field, compare |-> compare]

\* the three ways Request::parse ends: Ok(request), Err(message), or a panic
\* of the calling task (Option::unwrap on None)
ParseOk(r) == [tag |-> "Ok", req |-> r, err |-> <<>>]

ParseErr(m) == [tag |-> "Err", req |-> NoRequest, err |-> m]

ParsePanic == [tag |-> "Panic", req |-> NoRequest, err |-> <<>>]

\* the Some("CREATE") arm
ParseCreate(parts) ==
    LET split_input == IterNext(parts, 2) IN
    IF split_input = None THEN ParsePanic
    ELSE LET parts2 == splitn(split_input[1], 2, 32)
             pile == IterNext(parts2, 1)
             data == IterNext(parts2, 2)
         IN  IF pile = None THEN ParseErr(MsgCreateNoPile)
             ELSE IF data = None THEN ParseErr(MsgCreateNoData)
             ELSE ParseOk(RequestCreate(to_lowercase(pile[1]), data[1]))

\* the Some("FIND") arm
ParseFind(parts) ==
    LET split_input == IterNext(parts, 2) IN
    IF split_input = None THEN ParsePanic
    ELSE LET parts2 == splitn(split_input[1], 3, 32)
             pile == IterNext(parts2, 1)
             field == IterNext(parts2, 2)
             compare == IterNext(parts2, 3)
         IN  IF pile = None THEN ParseErr(MsgFindNoPile)
             ELSE IF field = None THEN ParseErr(MsgFindNoField)
             ELSE IF compare = None THEN ParseErr(MsgFindNoCompare)
             ELSE ParseOk(RequestFind(to_lowercase(pile[1]), field[1], compare[1]))

\* Request::parse
parse(input) ==
    LET parts == splitn(input, 2, 32)
        cmd == IterNext(parts, 1)
    IN  IF cmd = Some(VerbCreate) THEN ParseCreate(parts)
        ELSE IF cmd = Some(VerbPing) THEN ParseOk(RequestPing)
        ELSE IF cmd = Some(VerbFind) THEN ParseFind(parts)
        ELSE IF cmd # None THEN ParseErr(MsgUnknownCommand \o cmd[1])
        ELSE ParseErr(MsgEmptyRequest)

(***************************************************************************)
(* Response and Response::serialize.                                       *)
(***************************************************************************)
\* Response::Ok { exit_code, message }
ResponseOk(exit_code, message) ==
    [tag |-> "Ok", exit_code |-> exit_code, message |-> message, error |-> <<>>]

\* Response::Error { exit_code, error }
ResponseError(exit_code, error) ==
    [tag |-> "Error", exit_code |-> exit_code, message |-> None, error |-> error]

\* the decimal digits of a u8, as format!("{}", n) writes them
RECURSIVE Decimal(_)
Decimal(n) ==
    IF n < 10 THEN <<48 + n>> ELSE Decimal(n \div 10) \o <<48 + (n % 10)>>

\* Response::serialize
serialize(r) ==
    IF r.tag = "Ok"
    THEN Decimal(r.exit_code) \o <<32>>
           \o (IF r.message = None THEN <<>> ELSE r.message[1])
    ELSE Decimal(r.exit_code) \o ErrorPrefix \o r.error

\* response_handler: writes the response to the log and returns it unchanged
response_handler(response) == response

(***************************************************************************)
(* Hex codec (dustcfg::encode_utf8_to_hex, dustcfg::decode_hex_to_utf8).   *)
(***************************************************************************)
\* the lowercase hex digit of a nibble
HexDigit(n) == IF n < 10 THEN 48 + n ELSE 87 + n

\* the value of a hex digit, -1 for any other byte
HexValue(c) ==
    IF c >= 48 /\ c <= 57 THEN c - 48
    ELSE IF c >= 97 /\ c <= 102 THEN c - 87
    ELSE IF c >= 65 /\ c <= 70 THEN c - 55
    ELSE -1

\* two lowercase hex digits per byte of the text
encode_utf8_to_hex(text) ==
    [i \in 1..(2 * Len(text)) |->
        IF i % 2 = 1 THEN HexDigit(text[(i + 1) \div 2] \div 16)
        ELSE HexDigit(text[i \div 2] % 16)]

\* a continuation byte 10xxxxxx at position i
IsCont(bs, i) == i <= Len(bs) /\ bs[i] >= 128 /\ bs[i] <= 191

\* the bytes from position i on are well-formed UTF-8
RECURSIVE Utf8Valid(_, _)
Utf8Valid(bs, i) ==
    IF i > Len(bs) THEN TRUE
    ELSE LET b == bs[i] IN
         IF b < 128 THEN Utf8Valid(bs, i + 1)
         ELSE IF b >= 194 /\ b <= 223
              THEN IsCont(bs, i + 1) /\ Utf8Valid(bs, i + 2)
         ELSE IF b >= 224 /\ b <= 239
              THEN /\ IsCont(bs, i + 1) /\ IsCont(bs, i + 2)
                   /\ (b = 224 => bs[i + 1] >= 160)
                   /\ (b = 237 => bs[i + 1] <= 159)
                   /\ Utf8Valid(bs, i + 3)
         ELSE IF b >= 240 /\ b <= 244
              THEN /\ IsCont(bs, i + 1) /\ IsCont(bs, i + 2) /\ IsCont(bs, i + 3)
                   /\ (b = 240 => bs[i + 1] >= 144)
                   /\ (b = 244 => bs[i + 1] <= 143)
                   /\ Utf8Valid(bs, i + 4)
         ELSE FALSE

\* the bytes a hex text of even length spells (a pair that is not hex gives -1)
HexBytes(hex) ==
    [i \in 1..(Len(hex) \div 2) |->
        LET hi == HexValue(hex[2 * i - 1])
            lo == HexValue(hex[2 * i])
        IN  IF hi < 0 \/ lo < 0 THEN -1 ELSE 16 * hi + lo]

\* decode: fails on an odd length, on a pair that is not hex and on bytes
\* that are not UTF-8
decode_hex_to_utf8(hex) ==
    IF Len(hex) % 2 # 0 THEN [ok |-> FALSE, text |-> <<>>]
    ELSE LET bs == HexBytes(hex) IN
         IF \E i \in 1..Len(bs) : bs[i] < 0 THEN [ok |-> FALSE, text |-> <<>>]
         ELSE IF ~Utf8Valid(bs, 1) THEN [ok |-> FALSE, text |-> <<>>]
         ELSE [ok |-> TRUE, text |-> bs]

(***************************************************************************)
(* serde_json::from_str::<Value>, Value::get and Value::as_str.  The       *)
(* parser is the one of serde_json's Deserializer over a str (de.rs and    *)
(* read.rs, default features): a cursor over the bytes, the errors with    *)
(* the code and the position serde_json reports.  A parsed value is kept   *)
(* as its kind, its text when it is a string, and, for an object, its      *)
(* members (key, kind of the value, text of the value when a string).      *)
(***************************************************************************)
\* Err(Error { code, line, column }): at is the number of bytes before the
\* reported position
JErr(code, at) ==
    [ok |-> FALSE, next |-> 0, kind |-> "none", str |-> <<>>, members |-> <<>>,
     code |-> code, at |-> at]

\* Ok: a value of that kind, the cursor after it
JGood(next, kind, str, members) ==
    [ok |-> TRUE, next |-> next, kind |-> kind, str |-> str, members |-> members,
     code |-> "", at |-> 0]

\* Deserializer::error at cursor i: the position of the bytes consumed
ErrorAt(s, i) == i - 1

\* Deserializer::peek_error at cursor i: the position after the peeked byte,
\* the end of the text when there is none
PeekErrorAt(s, i) == IF i <= Len(s) THEN i ELSE Len(s)

\* Display of ErrorCode
ErrorCodeText(code) ==
    CASE code = "EofWhileParsingList" ->
           \* 'EOF while parsing a list'
           <<69, 79, 70, 32, 119, 104, 105, 108, 101, 32, 112, 97, 114, 115, 105, 110, 103, 32, 97, 32, 108, 105, 115, 116>>
      [] code = "EofWhileParsingObject" ->
           \* 'EOF while parsing an object'
           <<69, 79, 70, 32, 119, 104, 105, 108, 101, 32, 112, 97, 114, 115, 105, 110, 103, 32, 97, 110, 32, 111, 98, 106, 101, 99, 116>>
      [] code = "EofWhileParsingString" ->
           \* 'EOF while parsing a string'
           <<69, 79, 70, 32, 119, 104, 105, 108, 101, 32, 112, 97, 114, 115, 105, 110, 103, 32, 97, 32, 115, 116, 114, 105, 110, 103>>
      [] code = "EofWhileParsingValue" ->
           \* 'EOF while parsing a value'
           <<69, 79, 70, 32, 119, 104, 105, 108, 101, 32, 112, 97, 114, 115, 105, 110, 103, 32, 97, 32, 118, 97, 108, 117, 101>>
      [] code = "ExpectedColon" ->
           \* 'expected `:`'
           <<101, 120, 112, 101, 99, 116, 101, 100, 32, 96, 58, 96>>
      [] code = "ExpectedListCommaOrEnd" ->
           \* 'expected `,` or `]`'
           <<101, 120, 112, 101, 99, 116, 101, 100, 32, 96, 44, 96, 32, 111, 114, 32, 96, 93, 96>>
      [] code = "ExpectedObjectCommaOrEnd" ->
           \* 'expected `,` or `}`'
           <<101, 120, 112, 101, 99, 116, 101, 100, 32, 96, 44, 96, 32, 111, 114, 32, 96, 125, 96>>
      [] code = "ExpectedSomeIdent" ->
           \* 'expected ident'
           <<101, 120, 112, 101, 99, 116, 101, 100, 32, 105, 100, 101, 110, 116>>
      [] code = "ExpectedSomeValue" ->
           \* 'expected value'
           <<101, 120, 112, 101, 99, 116, 101, 100, 32, 118, 97, 108, 117, 101>>
      [] code = "InvalidEscape" ->
           \* 'invalid escape'
           <<105, 110, 118, 97, 108, 105, 100, 32, 101, 115, 99, 97, 112, 101>>
      [] code = "InvalidNumber" ->
           \* 'invalid number'
           <<105, 110, 118, 97, 108, 105, 100, 32, 110, 117, 109, 98, 101, 114>>
      [] code = "NumberOutOfRange" ->
           \* 'number out of range'
           <<110, 117, 109, 98, 101, 114, 32, 111, 117, 116, 32, 111, 102, 32, 114, 97, 110, 103, 101>>
      [] code = "ControlCharacterWhileParsingString" ->
           \* 'control character (\\u0000-\\u001F) found while parsing a string'
           <<99, 111, 110, 116, 114, 111, 108, 32, 99, 104, 97, 114, 97, 99, 116, 101, 114, 32, 40, 92, 117, 48, 48, 48, 48, 45, 92, 117, 48, 48, 49, 70, 41, 32, 102, 111, 117, 110, 100, 32, 119, 104, 105, 108, 101, 32, 112, 97, 114, 115, 105, 110, 103, 32, 97, 32, 115, 116, 114, 105, 110, 103>>
      [] code = "KeyMustBeAString" ->
           \* 'key must be a string'
           <<107, 101, 121, 32, 109, 117, 115, 116, 32, 98, 101, 32, 97, 32, 115, 116, 114, 105, 110, 103>>
      [] code = "LoneLeadingSurrogateInHexEscape" ->
           \* 'lone leading surrogate in hex escape'
           <<108, 111, 110, 101, 32, 108, 101, 97, 100, 105, 110, 103, 32, 115, 117, 114, 114, 111, 103, 97, 116, 101, 32, 105, 110, 32, 104, 101, 120, 32, 101, 115, 99, 97, 112, 101>>
      [] code = "TrailingComma" ->
           \* 'trailing comma'
           <<116, 114, 97, 105, 108, 105, 110, 103, 32, 99, 111, 109, 109, 97>>
      [] code = "TrailingCharacters" ->
           \* 'trailing characters'
           <<116, 114, 97, 105, 108, 105, 110, 103, 32, 99, 104, 97, 114, 97, 99, 116, 101, 114, 115>>
      [] code = "UnexpectedEndOfHexEscape" ->
           \* 'unexpected end of hex escape'
           <<117, 110, 101, 120, 112, 101, 99, 116, 101, 100, 32, 101, 110, 100, 32, 111, 102, 32, 104, 101, 120, 32, 101, 115, 99, 97, 112, 101>>
      [] code = "RecursionLimitExceeded" ->
           \* 'recursion limit exceeded'
           <<114, 101, 99, 117, 114, 115, 105, 111, 110, 32, 108, 105, 109, 105, 116, 32, 101, 120, 99, 101, 101, 100, 101, 100>>

\* ' at line '
TextAtLine ==
    <<32, 97, 116, 32, 108, 105, 110, 101, 32>>

\* ' column '
TextColumn ==
    <<32, 99, 111, 108, 117, 109, 110, 32>>

\* SliceRead::position_of_index: the line is one more than the line feeds
\* among the first n bytes
LineOf(s, n) == 1 + Cardinality({k \in 1..n : s[k] = 10})

\* SliceRead::position_of_index: the column is the number of bytes after the
\* last line feed among the first n bytes
ColumnOf(s, n) ==
    LET feeds == {k \in 1..n : s[k] = 10} IN
    IF feeds = {} THEN n ELSE n - (CHOOSE k \in feeds : \A m \in feeds : m <= k)

\* Display of serde_json::Error: "<code> at line <line> column <column>"
JsonErrorText(s, e) ==
    ErrorCodeText(e.code) \o TextAtLine \o Decimal(LineOf(s, e.at))
      \o TextColumn \o Decimal(ColumnOf(s, e.at))

IsWs(b) == b \in {32, 9, 10, 13}

IsDigit(b) == b >= 48 /\ b <= 57

\* Deserializer::parse_whitespace
RECURSIVE SkipWs(_, _)
SkipWs(s, i) == IF i <= Len(s) /\ IsWs(s[i]) THEN SkipWs(s, i + 1) ELSE i

RECURSIVE SkipDigits(_, _)
SkipDigits(s, i) == IF i <= Len(s) /\ IsDigit(s[i]) THEN SkipDigits(s, i + 1) ELSE i

\* SliceRead::decode_hex_escape on the four bytes from cursor i: the number
\* they spell, -1 when one of them is not a hex digit
HexEscape(s, i) ==
    LET v == [k \in 0..3 |-> HexValue(s[i + k])] IN
    IF \E k \in 0..3 : v[k] < 0 THEN -1
    ELSE 4096 * v[0] + 256 * v[1] + 16 * v[2] + v[3]

\* the byte a one-letter escape stands for, -1 for a letter that is none
SimpleEscape(ch) ==
    CASE ch = 34 -> 34
      [] ch = 92 -> 92
      [] ch = 47 -> 47
      [] ch = 98 -> 8
      [] ch = 102 -> 12
      [] ch = 110 -> 10
      [] ch = 114 -> 13
      [] ch = 116 -> 9
      [] OTHER -> -1

\* SliceRead::parse_str with parse_escape and parse_unicode_escape: the
\* string whose first byte is at cursor i, acc the bytes decoded so far
RECURSIVE ParseStr(_, _, _), ParseUnicodeEscape(_, _, _)
ParseStr(s, i, acc) ==
    IF i > Len(s) THEN JErr("EofWhileParsingString", Len(s))
    ELSE IF s[i] = 34 THEN JGood(i + 1, "string", acc, <<>>)
    ELSE IF s[i] = 92
         THEN IF i + 1 > Len(s) THEN JErr("EofWhileParsingString", Len(s))
              ELSE IF s[i + 1] = 117
                   THEN ParseUnicodeEscape(s, i + 2, acc)
              ELSE IF SimpleEscape(s[i + 1]) < 0 THEN JErr("InvalidEscape", i + 1)
              ELSE ParseStr(s, i + 2, Append(acc, SimpleEscape(s[i + 1])))
    ELSE IF s[i] < 32 THEN JErr("ControlCharacterWhileParsingString", i)
    ELSE ParseStr(s, i + 1, Append(acc, s[i]))

\* parse_unicode_escape, the cursor i after the u
ParseUnicodeEscape(s, i, acc) ==
    IF i + 3 > Len(s) THEN JErr("EofWhileParsingString", Len(s))
    ELSE LET n == HexEscape(s, i) IN
         IF n < 0 THEN JErr("InvalidEscape", i + 3)
         ELSE IF n >= 56320 /\ n <= 57343
              THEN JErr("LoneLeadingSurrogateInHexEscape", i + 3)
         ELSE IF n < 55296 \/ n > 56319
              THEN ParseStr(s, i + 4, acc \o EncodeUtf8(n))
         ELSE \* a leading surrogate: \u and a trailing surrogate must follow
              IF i + 4 > Len(s) THEN JErr("EofWhileParsingString", Len(s))
              ELSE IF s[i + 4] # 92 THEN JErr("UnexpectedEndOfHexEscape", i + 4)
              ELSE IF i + 5 > Len(s) THEN JErr("EofWhileParsingString", Len(s))
              ELSE IF s[i + 5] # 117 THEN JErr("UnexpectedEndOfHexEscape", i + 5)
              ELSE IF i + 9 > Len(s) THEN JErr("EofWhileParsingString", Len(s))
              ELSE LET n2 == HexEscape(s, i + 6) IN
                   IF n2 < 0 THEN JErr("InvalidEscape", i + 9)
                   ELSE IF n2 < 56320 \/ n2 > 57343
                        THEN JErr("LoneLeadingSurrogateInHexEscape", i + 9)
                   ELSE ParseStr(s, i + 10,
                          acc \o EncodeUtf8(65536 + 1024 * (n - 55296) + (n2 - 56320)))

\* a significand is kept as its decimal digits, none for zero: it goes up to
\* u64::MAX
U64Max ==
    \* 18446744073709551615
    <<1, 8, 4, 4, 6, 7, 4, 4, 0, 7, 3, 7, 0, 9, 5, 5, 1, 6, 1, 5>>

\* the number of digits a is greater than the number of digits b
DigitsGt(a, b) ==
    \/ Len(a) > Len(b)
    \/ /\ Len(a) = Len(b)
       /\ \E k \in 1..Len(a) : a[k] > b[k] /\ \A m \in 1..(k - 1) : a[m] = b[m]

\* significand * 10 + digit
SigPush(sig, digit) == IF sig = <<>> /\ digit = 0 THEN <<>> ELSE Append(sig, digit)

\* overflow!(significand * 10 + digit, u64::MAX)
SigOverflows(sig, digit) == DigitsGt(SigPush(sig, digit), U64Max)

\* the least significand whose product with POW10[e] is infinite in f64
\* arithmetic (both factors rounded to f64, then the product), for every e
\* that has one
InfiniteFrom(e) ==
    CASE e = 289 ->
           \* 17976931348623156225
           <<1, 7, 9, 7, 6, 9, 3, 1, 3, 4, 8, 6, 2, 3, 1, 5, 6, 2, 2, 5>>
      [] e = 290 ->
           \* 1797693134862315649
           <<1, 7, 9, 7, 6, 9, 3, 1, 3, 4, 8, 6, 2, 3, 1, 5, 6, 4, 9>>
      [] e = 291 ->
           \* 179769313486231600
           <<1, 7, 9, 7, 6, 9, 3, 1, 3, 4, 8, 6, 2, 3, 1, 6, 0, 0>>
      [] e = 292 ->
           \* 17976931348623158
           <<1, 7, 9, 7, 6, 9, 3, 1, 3, 4, 8, 6, 2, 3, 1, 5, 8>>
      [] e = 293 ->
           \* 1797693134862316
           <<1, 7, 9, 7, 6, 9, 3, 1, 3, 4, 8, 6, 2, 3, 1, 6>>
      [] e = 294 ->
           \* 179769313486232
           <<1, 7, 9, 7, 6, 9, 3, 1, 3, 4, 8, 6, 2, 3, 2>>
      [] e = 295 ->
           \* 17976931348624
           <<1, 7, 9, 7, 6, 9, 3, 1, 3, 4, 8, 6, 2, 4>>
      [] e = 296 ->
           \* 1797693134863
           <<1, 7, 9, 7, 6, 9, 3, 1, 3, 4, 8, 6, 3>>
      [] e = 297 ->
           \* 179769313487
           <<1, 7, 9, 7, 6, 9, 3, 1, 3, 4, 8, 7>>
      [] e = 298 ->
           \* 17976931349
           <<1, 7, 9, 7, 6, 9, 3, 1, 3, 4, 9>>
      [] e = 299 ->
           \* 1797693135
           <<1, 7, 9, 7, 6, 9, 3, 1, 3, 5>>
      [] e = 300 ->
           \* 179769314
           <<1, 7, 9, 7, 6, 9, 3, 1, 4>>
      [] e = 301 ->
           \* 17976932
           <<1, 7, 9, 7, 6, 9, 3, 2>>
      [] e = 302 ->
           \* 1797694
           <<1, 7, 9, 7, 6, 9, 4>>
      [] e = 303 ->
           \* 179770
           <<1, 7, 9, 7, 7, 0>>
      [] e = 304 ->
           \* 17977
           <<1, 7, 9, 7, 7>>
      [] e = 305 ->
           \* 1798
           <<1, 7, 9, 8>>
      [] e = 306 ->
           \* 180
           <<1, 8, 0>>
      [] e = 307 ->
           \* 18
           <<1, 8>>
      [] e = 308 ->
           \* 2
           <<2>>

\* f64_from_parts fails: the product significand * 10^exponent is infinite
IsOutOfRange(sig, exponent) ==
    /\ sig # <<>>
    /\ exponent >= 0
    /\ \/ exponent > 308
       \/ exponent >= 289 /\ ~DigitsGt(InfiniteFrom(exponent), sig)

\* Deserializer::f64_from_parts, the cursor next after the number
F64FromParts(s, next, sig, exponent) ==
    IF IsOutOfRange(sig, exponent) THEN JErr("NumberOutOfRange", ErrorAt(s, next))
    ELSE JGood(next, "number", <<>>, <<>>)

I32Max == 2147483647

\* the digits of an exponent from cursor i, exp the value so far.  When the
\* value overflows an i32 (parse_exponent_overflow) a positive exponent of a
\* significand that is not zero is out of range, any other is a zero.  The
\* digit that overflows is eaten before the test, so the error is after it
RECURSIVE ExpDigits(_, _, _, _, _, _)
ExpDigits(s, i, sig, starting_exp, positive_exp, exp) ==
    IF i <= Len(s) /\ IsDigit(s[i])
    THEN LET digit == s[i] - 48 IN
         IF exp > 214748364 \/ (exp = 214748364 /\ digit > 7)
         THEN IF sig # <<>> /\ positive_exp
              THEN JErr("NumberOutOfRange", ErrorAt(s, i + 1))
              ELSE JGood(SkipDigits(s, i), "number", <<>>, <<>>)
         ELSE ExpDigits(s, i + 1, sig, starting_exp, positive_exp, exp * 10 + digit)
    ELSE LET final_exp ==
               IF positive_exp
               THEN (IF starting_exp > 0 /\ exp > I32Max - starting_exp
                     THEN I32Max ELSE starting_exp + exp)
               ELSE (IF starting_exp > 0 THEN starting_exp - exp
                     \* nothing positive: the number is in range whatever it is
                     ELSE 0)
         IN  F64FromParts(s, i, sig, final_exp)

\* Deserializer::parse_exponent, the cursor i on the e
ParseExponent(s, i, sig, starting_exp) ==
    LET signed == i + 1 <= Len(s) /\ s[i + 1] \in {43, 45}
        positive_exp == ~(signed /\ s[i + 1] = 45)
        j == IF signed THEN i + 2 ELSE i + 1
    IN  IF j > Len(s) THEN JErr("EofWhileParsingValue", ErrorAt(s, j))
        ELSE IF ~IsDigit(s[j]) THEN JErr("InvalidNumber", ErrorAt(s, j + 1))
        ELSE ExpDigits(s, j + 1, sig, starting_exp, positive_exp, s[j] - 48)

\* the digits after the decimal point from cursor i: they go into the
\* significand until it would overflow (parse_decimal_overflow drops the
\* rest); then an exponent may follow
RECURSIVE FracDigits(_, _, _, _)
FracDigits(s, i, sig, exponent) ==
    IF i <= Len(s) /\ IsDigit(s[i]) /\ ~SigOverflows(sig, s[i] - 48)
    THEN FracDigits(s, i + 1, SigPush(sig, s[i] - 48), exponent - 1)
    ELSE LET j == SkipDigits(s, i) IN
         IF j <= Len(s) /\ s[j] \in {69, 101} THEN ParseExponent(s, j, sig, exponent)
         ELSE F64FromParts(s, j, sig, exponent)

\* Deserializer::parse_decimal, the cursor i on the point
ParseDecimal(s, i, sig, exponent_before) ==
    IF i + 1 <= Len(s) /\ IsDigit(s[i + 1])
    THEN FracDigits(s, i + 1, sig, exponent_before)
    ELSE IF i + 1 <= Len(s) THEN JErr("InvalidNumber", PeekErrorAt(s, i + 1))
    ELSE JErr("EofWhileParsingValue", PeekErrorAt(s, i + 1))

\* the digits of an integer from cursor i.  Digits go into the significand
\* until it would overflow; parse_long_integer counts the rest as a power
\* of ten.  Then a fraction or an exponent may follow
RECURSIVE IntDigits(_, _, _, _)
IntDigits(s, i, sig, exponent) ==
    IF i <= Len(s) /\ IsDigit(s[i])
    THEN IF exponent = 0 /\ ~SigOverflows(sig, s[i] - 48)
         THEN IntDigits(s, i + 1, SigPush(sig, s[i] - 48), 0)
         ELSE IntDigits(s, i + 1, sig, exponent + 1)
    ELSE IF i <= Len(s) /\ s[i] = 46 THEN ParseDecimal(s, i, sig, exponent)
    ELSE IF i <= Len(s) /\ s[i] \in {69, 101} THEN ParseExponent(s, i, sig, exponent)
    ELSE IF exponent > 0 THEN F64FromParts(s, i, sig, exponent)
    ELSE JGood(i, "number", <<>>, <<>>)

\* Deserializer::parse_integer, the cursor i after the sign
ParseInteger(s, i) ==
    IF i > Len(s) THEN JErr("EofWhileParsingValue", ErrorAt(s, i))
    ELSE IF s[i] = 48
         THEN IF i + 1 <= Len(s) /\ IsDigit(s[i + 1])
              THEN JErr("InvalidNumber", PeekErrorAt(s, i + 1))
              ELSE IntDigits(s, i + 1, <<>>, 0)
    ELSE IF IsDigit(s[i]) THEN IntDigits(s, i + 1, <<s[i] - 48>>, 0)
    ELSE JErr("InvalidNumber", ErrorAt(s, i + 1))

\* Deserializer::parse_ident: the bytes of ident from cursor i
RECURSIVE ParseIdent(_, _, _, _)
ParseIdent(s, i, ident, kind) ==
    IF ident = <<>> THEN JGood(i, kind, <<>>, <<>>)
    ELSE IF i > Len(s) THEN JErr("EofWhileParsingValue", ErrorAt(s, i))
    ELSE IF s[i] # Head(ident) THEN JErr("ExpectedSomeIdent", ErrorAt(s, i + 1))
    ELSE ParseIdent(s, i + 1, Tail(ident), kind)

\* Deserializer::remaining_depth at the start
RecursionLimit == 128

RECURSIVE JValue(_, _, _), JMembers(_, _, _, _, _), JElements(_, _, _, _)
\* Deserializer::deserialize_any for a Value: one value at or after cursor
\* i, with remaining_depth depth
JValue(s, i, depth) ==
    LET j == SkipWs(s, i) IN
    IF j > Len(s) THEN JErr("EofWhileParsingValue", PeekErrorAt(s, j))
    ELSE IF s[j] = 110 THEN ParseIdent(s, j + 1, <<117, 108, 108>>, "null")
    ELSE IF s[j] = 116 THEN ParseIdent(s, j + 1, <<114, 117, 101>>, "bool")
    ELSE IF s[j] = 102 THEN ParseIdent(s, j + 1, <<97, 108, 115, 101>>, "bool")
    ELSE IF s[j] = 45 THEN ParseInteger(s, j + 1)
    ELSE IF IsDigit(s[j]) THEN ParseInteger(s, j)
    ELSE IF s[j] = 34 THEN ParseStr(s, j + 1, <<>>)
    ELSE IF s[j] = 91
         THEN IF depth - 1 = 0
              THEN JErr("RecursionLimitExceeded", PeekErrorAt(s, j))
              ELSE JElements(s, j + 1, depth - 1, TRUE)
    ELSE IF s[j] = 123
         THEN IF depth - 1 = 0
              THEN JErr("RecursionLimitExceeded", PeekErrorAt(s, j))
              ELSE JMembers(s, j + 1, depth - 1, TRUE, <<>>)
    ELSE JErr("ExpectedSomeValue", PeekErrorAt(s, j))

\* MapAccess::next_key_seed and next_value_seed, then end_map: the members
\* of an object from cursor i, after the members acc
JMembers(s, i, depth, first, acc) ==
    LET j == SkipWs(s, i) IN
    IF j > Len(s) THEN JErr("EofWhileParsingObject", PeekErrorAt(s, j))
    ELSE IF s[j] = 125 THEN JGood(j + 1, "object", <<>>, acc)
    ELSE IF ~first /\ s[j] # 44
         THEN JErr("ExpectedObjectCommaOrEnd", PeekErrorAt(s, j))
    ELSE LET k == IF first THEN j ELSE SkipWs(s, j + 1) IN
         IF k > Len(s) THEN JErr("EofWhileParsingValue", PeekErrorAt(s, k))
         ELSE IF ~first /\ s[k] = 125 THEN JErr("TrailingComma", PeekErrorAt(s, k))
         ELSE IF s[k] # 34 THEN JErr("KeyMustBeAString", PeekErrorAt(s, k))
         ELSE LET key == ParseStr(s, k + 1, <<>>) IN
              IF ~key.ok THEN key
              ELSE LET c == SkipWs(s, key.next) IN
                   IF c > Len(s)
                   THEN JErr("EofWhileParsingObject", PeekErrorAt(s, c))
                   ELSE IF s[c] # 58 THEN JErr("ExpectedColon", PeekErrorAt(s, c))
                   ELSE LET v == JValue(s, c + 1, depth) IN
                        IF ~v.ok THEN v
                        ELSE JMembers(s, v.next, depth, FALSE,
                               Append(acc, [key |-> key.str, kind |-> v.kind,
                                            str |-> v.str]))

\* SeqAccess::next_element_seed, then end_seq: the elements of an array
\* from cursor i
JElements(s, i, depth, first) ==
    LET j == SkipWs(s, i) IN
    IF j > Len(s) THEN JErr("EofWhileParsingList", PeekErrorAt(s, j))
    ELSE IF s[j] = 93 THEN JGood(j + 1, "array", <<>>, <<>>)
    ELSE IF ~first /\ s[j] # 44
         THEN JErr("ExpectedListCommaOrEnd", PeekErrorAt(s, j))
    ELSE LET k == IF first THEN j ELSE SkipWs(s, j + 1) IN
         IF k > Len(s) THEN JErr("EofWhileParsingValue", PeekErrorAt(s, k))
         ELSE IF ~first /\ s[k] = 93 THEN JErr("TrailingComma", PeekErrorAt(s, k))
         ELSE LET v == JValue(s, k, depth) IN
              IF ~v.ok THEN v
              ELSE JElements(s, v.next, depth, FALSE)

\* serde_json::from_str: one value, then Deserializer::end: nothing but
\* whitespace after it
from_str(s) ==
    LET v == JValue(s, 1, RecursionLimit) IN
    IF ~v.ok THEN v
    ELSE LET n == SkipWs(s, v.next) IN
         IF n <= Len(s) THEN JErr("TrailingCharacters", PeekErrorAt(s, n))
         ELSE v

\* Value::get(field_name): the member of that key (the last one, a later
\* member replacing an earlier one of the same key); None when the value is
\* not an object or has no such member
get(json, field_name) ==
    LET idx == {i \in 1..Len(json.members) : json.members[i].key = field_name} IN
    IF json.kind # "object" \/ idx = {} THEN None
    ELSE Some(json.members[CHOOSE i \in idx : \A k \in idx : k <= i])

\* Value::as_str: Some(text) for a string member, None for any other kind
as_str(member) == IF member.kind = "string" THEN Some(member.str) ELSE None

(***************************************************************************)
(* The filesystem.  A path is the sequence of its components after the     *)
(* operating system has resolved it; fs.dirs is the set of directories,    *)
(* fs.files maps the path of every regular file to its content.  Every     *)
(* system call is one step; its outcome is an errno name, "" for success.  *)
(***************************************************************************)
\* every piece of s between two separators
RECURSIVE SplitAll(_, _)
SplitAll(s, sep) ==
    LET i == IndexOf(s, sep, 1) IN
    IF i = 0 THEN <<s>>
    ELSE <<SubSeq(s, 1, i - 1)>> \o SplitAll(SubSeq(s, i + 1, Len(s)), sep)

\* path resolution when every directory on the way exists: empty pieces and
\* "." name the directory itself, ".." its parent
RECURSIVE Resolve(_, _)
Resolve(pieces, acc) ==
    IF pieces = <<>> THEN acc
    ELSE LET p == Head(pieces) IN
         IF p = <<>> \/ p = <<46>> THEN Resolve(Tail(pieces), acc)
         ELSE IF p = <<46, 46>>
              THEN Resolve(Tail(pieces),
                           IF acc = <<>> THEN acc ELSE SubSeq(acc, 1, Len(acc) - 1))
         ELSE Resolve(Tail(pieces), Append(acc, p))

\* Path::new(text), as the operating system resolves it when every directory
\* on the way exists
PathOf(text) == Resolve(SplitAll(text, 47), <<>>)

\* format!("{}{}", get_env_var("DUST_DATA_STORAGE_PATH"), &pile_name)
pile_path(pile_name) == StorageRoot \o pile_name

\* format!("{}/{}.{}", pile_path, generated_uuid, get_env_var("DUST_DATA_FMT"))
file_path(pile_name, generated_uuid) ==
    pile_path(pile_name) \o <<47>> \o generated_uuid \o <<46>> \o DataFmt

\* entry?.path(): the file name joined to the path read_dir was given
entry_path(dir_path, file_name) ==
    IF dir_path[Len(dir_path)] = 47 THEN dir_path \o file_name
    ELSE dir_path \o <<47>> \o file_name

\* the parent directory of a path
Parent(p) == SubSeq(p, 1, Len(p) - 1)

\* a piece of a path that names something: not empty and not "."
IsName(piece) == piece # <<>> /\ piece # <<46>>

\* Path::components of an absolute path: the names and the ".." pieces
Components(text) == SelectSeq(SplitAll(text, 47), IsName)

\* NAME_MAX of Linux: the longest file name, in bytes
NameMax == 255

\* PATH_MAX of Linux: the length of the longest path, its final NUL included
PathMax == 4096

\* what a path is refused for before any lookup: a NUL byte (by the standard
\* library, which passes C strings) or its length (by the kernel)
PathError(text) ==
    IF \E i \in 1..Len(text) : text[i] = 0 THEN "NUL"
    ELSE IF Len(text) >= PathMax THEN "ENAMETOOLONG"
    ELSE ""

\* the kernel follows the components from directory cur, left to right: the
\* error it stops with, or the path it arrives at
RECURSIVE Lookup(_, _, _)
Lookup(f, comps, cur) ==
    IF comps = <<>> THEN [err |-> "", path |-> cur]
    ELSE IF cur \in DOMAIN f.files THEN [err |-> "ENOTDIR", path |-> cur]
    ELSE LET name == Head(comps) IN
         IF name = <<46, 46>>
         THEN Lookup(f, Tail(comps), IF cur = <<>> THEN cur ELSE Parent(cur))
         ELSE IF Len(name) > NameMax THEN [err |-> "ENAMETOOLONG", path |-> cur]
         ELSE IF Append(cur, name) \in f.dirs \cup DOMAIN f.files
              THEN Lookup(f, Tail(comps), Append(cur, name))
         ELSE [err |-> "ENOENT", path |-> cur]

\* what the last component of comps would be the path of, and the error that
\* keeps a system call from creating it there ("EXISTS": something has that
\* path already)
Target(f, comps) ==
    IF comps = <<>> THEN [err |-> "EXISTS", path |-> <<>>]
    ELSE LET parent == Lookup(f, Parent(comps), <<>>)
             name == comps[Len(comps)]
             path == Append(parent.path, name)
         IN  IF parent.err # "" THEN parent
             ELSE IF parent.path \in DOMAIN f.files
                  THEN [err |-> "ENOTDIR", path |-> parent.path]
             ELSE IF name = <<46, 46>>
                  THEN [err |-> "EXISTS",
                        path |-> IF parent.path = <<>> THEN <<>>
                                 ELSE Parent(parent.path)]
             ELSE IF Len(name) > NameMax
                  THEN [err |-> "ENAMETOOLONG", path |-> parent.path]
             ELSE IF path \in f.dirs \cup DOMAIN f.files
                  THEN [err |-> "EXISTS", path |-> path]
             ELSE [err |-> "", path |-> path]

\* a piece of a path that is not empty
NotEmpty(piece) == piece # <<>>

\* the text of the path ends in a "." component, the separators after it
\* aside.  Path::parent drops such an end, so of the paths create_dir_all
\* hands to mkdir only the one it was called with can have it
EndsInDot(text) ==
    LET pieces == SelectSeq(SplitAll(text, 47), NotEmpty) IN
    pieces # <<>> /\ pieces[Len(pieces)] = <<46>>

\* mkdir(2) of the path with these components: the error it fails with.
\* dot: the text of the path ends in "."; then the kernel follows every
\* component, each of which has to be a directory, and makes nothing
mkdir(f, comps, dot) ==
    LET t == Target(f, comps)
        r == Lookup(f, comps, <<>>)
    IN  IF dot
        THEN (IF r.err # "" THEN r.err
              ELSE IF r.path \in DOMAIN f.files THEN "ENOTDIR"
              ELSE "EEXIST")
        ELSE IF t.err = "EXISTS" THEN "EEXIST" ELSE t.err

\* Path::is_dir of the path with these components: stat(2) succeeds and
\* finds a directory
is_dir_at(f, comps) ==
    LET r == Lookup(f, comps, <<>>) IN r.err = "" /\ r.path \in f.dirs

\* Path::is_dir
is_dir(f, text) == PathError(text) = "" /\ is_dir_at(f, Components(text))

\* fs::read_dir: the entries directly inside the directory p
read_dir(f, p) ==
    {q \in f.dirs \cup DOMAIN f.files : Len(q) = Len(p) + 1 /\ Parent(q) = p}

\* fs::create_dir in its place: a directory that exists already is an error
AlreadyDir_Never(f, comps) == FALSE

\* fs::create_dir_all, e.kind() == AlreadyExists && ancestor.is_dir(): a
\* mkdir that found something in its place counts as done when that is a
\* directory
AlreadyDir(f, comps) == is_dir_at(f, comps)

\* File::create_new in its place: open(2) with O_EXCL fails when the file
\* exists already
file_create_New(f, text) ==
    LET t == Target(f, Components(text)) IN
    IF PathError(text) # "" THEN PathError(text)
    ELSE IF t.err = "EXISTS" THEN "EEXIST"
    ELSE t.err

\* File::create (the first half of fs::write), open(2) with O_CREAT and
\* O_TRUNC: the error it fails with
file_create(f, text) ==
    LET t == Target(f, Components(text)) IN
    IF PathError(text) # "" THEN PathError(text)
    ELSE IF t.err = "EXISTS"
         THEN IF t.path \in f.dirs THEN "EISDIR" ELSE ""
    ELSE t.err

\* io::Error as Display prints it
ErrnoText(e) ==
    CASE e = "NUL" -> TextNulByte
      [] e = "ENOENT" -> TextNotFound
      [] e = "EEXIST" -> TextFileExists
      [] e = "ENOTDIR" -> TextNotADirectory
      [] e = "EISDIR" -> TextIsADirectory
      [] e = "ENAMETOOLONG" -> TextNameTooLong

\* a write that leaves the file as the only one
put_file_Only(f, p, content) == [f EXCEPT !.files = (p :> content)]

\* a file of that path and content, replacing whatever file was there
put_file(f, p, content) == [f EXCEPT !.files = (p :> content) @@ f.files]

\* the smaller of two numbers
Min(a, b) == IF a < b THEN a ELSE b

\* the larger of two numbers
Max(a, b) == IF a > b THEN a ELSE b

\* PROBE_SIZE of io::default_read_to_end
ProbeSize == 32

\* DEFAULT_BUF_SIZE of std::io
DefaultBufSize == 8192

\* max_read_size of io::default_read_to_end: the size hint and 1024 more,
\* rounded up to a multiple of DEFAULT_BUF_SIZE
MaxReadSize(size_hint) ==
    ((size_hint + 1024 + DefaultBufSize - 1) \div DefaultBufSize) * DefaultBufSize

\* RawVec::grow_amortized: the capacity of a byte vector that has to hold
\* required bytes
Grow(cap, required) == Max(8, Max(2 * cap, required))

\* read(2) at an offset: the bytes the file holds there now, count at most
read(content, offset, count) ==
    SubSeq(content, offset + 1, Min(Len(content), offset + count))

(***************************************************************************)
(* The inputs: the lines clients send and the identifiers the generator    *)
(* draws.                                                                  *)
(***************************************************************************)
\* generate_v4_uuid() draws one of these
Uuids == {Uuid1, Uuid2}

\* record bodies clients store: two records whose "name" is "alice", one
\* whose "name" is a number, one without "name", and a text that is not JSON
Docs == {DocAlice, DocAliceB, DocNum, DocOther, DocBad}

\* the payload token of a CREATE
DataTokens == {encode_utf8_to_hex(d) : d \in Docs} \cup {HexNotHex, HexOdd}

\* pile tokens of a CREATE and of a FIND
CreatePiles == {PileUsers, PileUsersCap}

FindPiles == {PileUsers, PileUsersCap, PileOther, PileEcole, PileSigmaCap}

Fields == {FieldName}

\* compare values: a stored name, a name nobody has, a stored name in another
\* case, and the beginning of a stored name
Compares == {CmpAlice, CmpBob, CmpAliceCap, CmpAli}

\* a b, a b c, ...: tokens joined by single spaces
Join(a, b) == a \o <<32>> \o b

\* every line a client may send
Lines ==
    {<<>>, WordFoo, VerbPing, Join(VerbPing, WordFoo), VerbCreate, VerbFind}
    \cup {Join(VerbCreate, p) : p \in CreatePiles}
    \cup {Join(Join(VerbCreate, p), d) : p \in CreatePiles, d \in DataTokens}
    \cup {Join(Join(VerbCreate, PileEcoleCap), HexNotHex)}
    \cup {Join(VerbFind, p) : p \in FindPiles}
    \cup {Join(Join(VerbFind, p), f) : p \in FindPiles, f \in Fields}
    \cup {Join(Join(Join(VerbFind, p), f), v) :
            p \in FindPiles, f \in Fields, v \in Compares}

\* the lines of the requests that are run side by side on two connections:
\* a FIND that panics, the CREATE of two records of different lengths, and a
\* FIND of their pile
ConcLines ==
    {VerbFind,
     Join(Join(VerbCreate, PileUsers), encode_utf8_to_hex(DocOther)),
     Join(Join(VerbCreate, PileUsersCap), encode_utf8_to_hex(DocAlice)),
     Join(Join(Join(VerbFind, PileUsersCap), FieldName), CmpAlice)}

\* the lines of the CREATEs that are run side by side on two connections
CreateLines ==
    {Join(Join(VerbCreate, PileUsers), encode_utf8_to_hex(DocAlice)),
     Join(Join(VerbCreate, PileUsersCap), encode_utf8_to_hex(DocBad))}

\* pile tokens that are not plain names: the empty token of a line with two
\* spaces after the verb, the parent directory, a path through the parent,
\* and a path of two names
OddPiles == {<<>>, PileDotDot, PileUp, PileNested}

\* pile tokens whose directory cannot be made: a name with a NUL byte, a
\* name that is too long, the name of a record file in the storage root,
\* and a path to that file through a directory that does not exist
BadPiles == {PileNul, PileLong, PileFile, PileBesideFile}

\* a path of three names under the storage root, the last of them too long:
\* 'users/sub/' and the name of 256 bytes
PileSubLong == PileUsers \o <<47, 115, 117, 98, 47>> \o PileLong

\* the lines of connections that end in every way: a FIND without arguments
\* (the parser panics), an unknown verb (a parse error), a PING, two CREATEs
\* that succeed, a CREATE whose directory cannot be made, and a FIND of the
\* pile of the CREATEs
ListenerLines ==
    {VerbFind, WordFoo, VerbPing,
     Join(Join(VerbCreate, PileUsers), encode_utf8_to_hex(DocAlice)),
     Join(Join(VerbCreate, PileUsers), encode_utf8_to_hex(DocOther)),
     Join(Join(VerbCreate, PileSubLong), encode_utf8_to_hex(DocAlice)),
     Join(Join(Join(VerbFind, PileUsers), FieldName), CmpAlice)}

\* pile tokens that end in ".": the storage root itself, a directory that
\* is not there, the pile "users", and the record file in the storage root
DotPiles == {PileDot, PileNewDot, PileUsersDot, PileFileDot}

\* the lines whose pile token is one of those, with a plain one beside them
PathLines ==
    {Join(Join(VerbCreate, p), encode_utf8_to_hex(DocAlice)) :
        p \in OddPiles \cup BadPiles \cup DotPiles \cup {PileUsers, PileEcoleCap}}
    \cup {Join(Join(Join(VerbFind, p), FieldName), CmpAlice) :
        p \in {<<>>, PileDotDot, PileA, PileUsers, PileEcole}}

(***************************************************************************)
(* The task of one connection (main, lines 147-176) and handle_request.    *)
(***************************************************************************)
\* the locals of a task that has read nothing yet
NewTask ==
    [line     |-> None,        \* the decoded line handle_request was called with
     req      |-> NoRequest,   \* the parsed request
     uuid     |-> <<>>,        \* create: generated_uuid
     data     |-> <<>>,        \* create: decoded_data_result
     level    |-> 0,           \* create_dir_all: how many components the
                               \* ancestor at hand has
     rising   |-> FALSE,       \* create_dir_all: the first loop has ended
     snap     |-> {},          \* find: the entries the directory held when opened
     visited  |-> {},          \* find: the entries the scan has read
     entry    |-> <<>>,        \* read_to_string: the file that is open
     hint     |-> 0,           \* read_to_string: the size fstat reported
     buf      |-> <<>>,        \* read_to_string: the bytes read so far
     cap      |-> 0,           \* read_to_string: the capacity of the buffer
     phase    |-> "",          \* read_to_string: where in default_read_to_end
     resp     |-> None,        \* the response handle_request returned
     errored  |-> FALSE,       \* the stream has yielded a decode error
     missing  |-> FALSE,       \* find: the pile directory did not exist
     malformed |-> FALSE,      \* find: the scan read a file that is not JSON
     replaced |-> FALSE,       \* create: the file it opened held a record
                               \* other than its payload
     torn     |-> FALSE]       \* find: the scan read a file between its creation
                               \* and its write by a create of a JSON record

\* the task is running: the connection is open
Open(c) == pc[c] \notin {"free", "closed", "panicked"}

\* handle_request returns this response: the task goes on to send it
Return(c, t, response) ==
    /\ pc' = [pc EXCEPT ![c] = "send"]
    /\ h' = [h EXCEPT ![c] = [t EXCEPT !.resp = Some(response_handler(response))]]

\* the task panics: it ends without a response and its socket is dropped;
\* the runtime catches the panic of a spawned task
Panic(c, t) ==
    /\ pc' = [pc EXCEPT ![c] = "panicked"]
    /\ h' = [h EXCEPT ![c] = t]

\* Err(e) of Request::parse
ParseErrorResponse(e) == ResponseError(1, e)

\* a PING answered with a message
PingResponse_Pong == ResponseOk(0, Some(<<80, 79, 78, 71>>))

\* Request::Ping {}
PingResponse == ResponseOk(0, None)

\* Ok(generated_uuid) of create
CreateOkResponse(generated_uuid) == ResponseOk(0, Some(generated_uuid))

\* Err(e) of create
CreateErrorResponse(e) == ResponseError(1, MsgCreateFailed \o e)

\* Ok(encoded_json_data) of find
FindOkResponse(encoded_json_data) == ResponseOk(0, Some(encoded_json_data))

\* Err(e) of find
FindErrorResponse(e) == ResponseError(1, MsgFindFailed \o e)

Init ==
    /\ fs = [dirs |-> {<<>>}, files |-> <<>>]
    /\ pc = [c \in Conns |-> "free"]
    /\ h = [c \in Conns |-> NewTask]
    /\ sent = [c \in Conns |-> 0]
    /\ nread = [c \in Conns |-> 0]
    /\ out = [c \in Conns |-> <<>>]
    /\ listener = [running |-> TRUE, errors |-> 0]
    /\ stored = {}

\* listener.accept() returns a connection and its task is spawned; the loop
\* goes on
Accept(c) ==
    /\ listener.running
    /\ UNCHANGED <<listener, stored>>
    /\ ~Open(c)
    /\ pc' = [pc EXCEPT ![c] = "await"]
    /\ h' = [h EXCEPT ![c] = NewTask]
    /\ sent' = [sent EXCEPT ![c] = 0]
    /\ nread' = [nread EXCEPT ![c] = 0]
    /\ out' = [out EXCEPT ![c] = <<>>]
    /\ UNCHANGED fs

\* listener.accept() returns an error: it is printed and the loop goes on
AcceptError ==
    /\ listener.running
    /\ listener.errors < MaxAcceptErrors
    /\ listener' = [listener EXCEPT !.errors = @ + 1]
    /\ UNCHANGED <<fs, pc, h, sent, nread, out, stored>>

\* the client writes one more line on its connection
ClientSend(c) ==
    /\ Open(c)
    /\ UNCHANGED <<listener, stored>>
    /\ sent[c] < MaxLines
    /\ sent' = [sent EXCEPT ![c] = @ + 1]
    /\ UNCHANGED <<fs, pc, h, nread, out>>

\* a create that makes the pile directory before it decodes the payload
CreateInvalidPayload_AfterMkdir(c, t) ==
    /\ Return(c, t, CreateErrorResponse(TextInvalidPayload))
    /\ LET comps == Components(pile_path(t.req.pile)) IN
       fs' = [fs EXCEPT !.dirs =
                @ \cup {Resolve(SubSeq(comps, 1, k), <<>>) : k \in 0..Len(comps)}]

\* create: decode_hex_to_utf8 fails and the error is returned, before any
\* filesystem call
CreateInvalidPayload(c, t) ==
    /\ Return(c, t, CreateErrorResponse(TextInvalidPayload))
    /\ UNCHANGED fs

\* lines.next() yields Ok(line): handle_request parses the line and runs up
\* to its first filesystem operation (for a CREATE: the identifier is drawn,
\* one of uuids, and the payload decoded).  sent counts the lines the client has written;
\* the text of a line is drawn when the task reads it, which is the first
\* time anything depends on it
RecvLineOf(c, lines, uuids) ==
    /\ pc[c] = "await"
    /\ UNCHANGED <<listener, stored>>
    /\ nread[c] < sent[c]
    /\ nread' = [nread EXCEPT ![c] = @ + 1]
    /\ UNCHANGED <<sent, out>>
    /\ \E line \in lines :
         LET r == parse(line)
             t == [h[c] EXCEPT !.line = Some(line), !.req = r.req]
         IN  IF r.tag = "Ok" /\ r.req.kind = "Create"
             THEN \E generated_uuid \in uuids :
                    LET d == decode_hex_to_utf8(r.req.data) IN
                    IF ~d.ok
                    THEN CreateInvalidPayload(c, t)
                    ELSE /\ pc' = [pc EXCEPT ![c] = "create_dir"]
                         /\ h' = [h EXCEPT ![c] =
                                    [t EXCEPT !.uuid = generated_uuid,
                                              !.data = d.text,
                                              !.level = Len(Components(
                                                          pile_path(r.req.pile)))]]
                         /\ UNCHANGED fs
             ELSE /\ UNCHANGED fs
                  /\ IF r.tag = "Panic" THEN Panic(c, t)
                     ELSE IF r.tag = "Err" THEN Return(c, t, ParseErrorResponse(r.err))
                     ELSE IF r.req.kind = "Ping" THEN Return(c, t, PingResponse)
                     ELSE /\ pc' = [pc EXCEPT ![c] = "find_open"]
                          /\ h' = [h EXCEPT ![c] = t]

\* a line of any content arrives
RecvLine(c) == RecvLineOf(c, Lines, Uuids)

\* a line of the requests that run side by side arrives
\* and every CREATE draws the same identifier
RecvLineConc(c) == RecvLineOf(c, ConcLines, {Uuid1})

\* a CREATE of those that run side by side arrives
RecvLineCreates(c) == RecvLineOf(c, CreateLines, Uuids)

\* a line with a pile token of any shape arrives; the generator draws the
\* identifier that is the name of the pile PileFile
RecvLinePaths(c) == RecvLineOf(c, PathLines, {Uuid1})

\* the stream yields Ok(line), one of ListenerLines
RecvLineListener(c) == RecvLineOf(c, ListenerLines, {Uuid1})

\* lines.next() yields Err(e): it is printed and the loop goes on
RecvDecodeError(c) ==
    /\ pc[c] = "await"
    /\ UNCHANGED <<listener, stored>>
    /\ nread[c] < sent[c]
    /\ nread' = [nread EXCEPT ![c] = @ + 1]
    /\ h' = [h EXCEPT ![c].errored = TRUE]
    /\ UNCHANGED <<fs, pc, sent, out>>

\* lines.next() yields None: the peer has closed after its last line, or the
\* framing has ended the stream after a decode error
StreamEnd(c) ==
    /\ pc[c] = "await"
    /\ UNCHANGED <<listener, stored>>
    /\ nread[c] = sent[c] \/ h[c].errored
    /\ pc' = [pc EXCEPT ![c] = "closed"]
    /\ UNCHANGED <<fs, h, sent, nread, out>>

\* create_dir_all is done with the path of `level` of the components all,
\* which mkdir has made or which is a directory already: it returns Ok when
\* that is the path it was called with, and goes on to make the path one
\* component longer otherwise
CreateDirOk(c, all) ==
    IF h[c].level = Len(all)
    THEN /\ pc' = [pc EXCEPT ![c] = "create_open"]
         /\ h' = [h EXCEPT ![c].level = 0, ![c].rising = FALSE]
    ELSE /\ pc' = [pc EXCEPT ![c] = "create_dir"]
         /\ h' = [h EXCEPT ![c].level = @ + 1, ![c].rising = TRUE]

\* create_dir_all returns this error, and create with it
CreateDirErr(c, e) ==
    Return(c, [h[c] EXCEPT !.level = 0, !.rising = FALSE],
           CreateErrorResponse(ErrnoText(e)))

\* create, step 3, fs::create_dir_all(&pile_path): one mkdir(2) of
\* DirBuilder::create_dir_all.  Its first loop goes through path.ancestors(),
\* the path itself first: a mkdir that succeeds ends the loop, NotFound
\* counts the ancestor as uncreated and goes on with the next, which is not
\* tried when it is the root; AlreadyExists ends the loop when the ancestor
\* is a directory (CreateStat); any other error is returned.  Its second
\* loop makes the uncreated ancestors, the shortest first, and returns the
\* error of a mkdir unless it is AlreadyExists and the path is a directory.
\* level is the number of components of the ancestor at hand, rising says
\* that the second loop is running
CreateDir(c) ==
    /\ pc[c] = "create_dir"
    /\ UNCHANGED <<listener, stored>>
    /\ UNCHANGED <<sent, nread, out>>
    /\ LET text == pile_path(h[c].req.pile)
           all == Components(text)
           comps == SubSeq(all, 1, h[c].level)
           top == h[c].level = Len(all)
           refused == top /\ PathError(text) # ""
           e == IF refused THEN PathError(text)
                ELSE mkdir(fs, comps, top /\ EndsInDot(text))
       IN  IF e = ""
           THEN /\ fs' = [fs EXCEPT !.dirs = @ \cup {Target(fs, comps).path}]
                /\ CreateDirOk(c, all)
           ELSE /\ UNCHANGED fs
                /\ IF e = "ENOENT" /\ ~h[c].rising
                   THEN /\ h' = [h EXCEPT ![c] =
                                   IF @.level = 1 THEN [@ EXCEPT !.rising = TRUE]
                                   ELSE [@ EXCEPT !.level = @ - 1]]
                        /\ UNCHANGED pc
                   ELSE IF e = "EEXIST"
                        THEN /\ pc' = [pc EXCEPT ![c] = "create_stat"]
                             /\ UNCHANGED h
                   ELSE CreateDirErr(c, e)

\* create, step 3, e.kind() == AlreadyExists && ancestor.is_dir() of
\* create_dir_all: the stat(2) after a mkdir that found something in its
\* place.  A directory is as good as made; anything else is the error of
\* the mkdir
CreateStat(c) ==
    /\ pc[c] = "create_stat"
    /\ UNCHANGED <<listener, stored>>
    /\ UNCHANGED <<fs, sent, nread, out>>
    /\ LET all == Components(pile_path(h[c].req.pile))
           comps == SubSeq(all, 1, h[c].level)
       IN  IF AlreadyDir(fs, comps) THEN CreateDirOk(c, all)
           ELSE CreateDirErr(c, "EEXIST")

\* create, step 4, fs::write: the file is created or truncated
CreateOpen(c) ==
    /\ pc[c] = "create_open"
    /\ UNCHANGED <<listener, stored>>
    /\ UNCHANGED <<sent, nread, out>>
    /\ LET text == file_path(h[c].req.pile, h[c].uuid)
           e == file_create(fs, text)
           p == Target(fs, Components(text)).path
       IN  IF e = ""
           THEN /\ fs' = put_file(fs, p, <<>>)
                /\ pc' = [pc EXCEPT ![c] = "create_write"]
                /\ h' = [h EXCEPT ![c].replaced =
                           /\ p \in DOMAIN fs.files
                           /\ fs.files[p] \notin {<<>>, h[c].data}]
           ELSE /\ UNCHANGED fs
                /\ Return(c, h[c], CreateErrorResponse(ErrnoText(e)))

\* write(2) at the beginning of a file: the bytes replace those that were
\* there, and what the file held beyond them stays
write_at_start(old, data) == data \o SubSeq(old, Len(data) + 1, Len(old))

\* create, step 4, fs::write: the decoded data is written at the beginning
\* of the file it opened, create returns Ok(generated_uuid)
CreateWrite(c) ==
    /\ pc[c] = "create_write"
    /\ UNCHANGED <<sent, nread, out, listener>>
    /\ LET p == PathOf(file_path(h[c].req.pile, h[c].uuid))
       IN  /\ fs' = put_file(fs, p, write_at_start(fs.files[p], h[c].data))
           /\ stored' = stored \cup {p}
    /\ Return(c, h[c], CreateOkResponse(h[c].uuid))

\* a find that reports a pile without a directory as an error (the else
\* branch the source has commented out)
FindMissingResult_NotFound == FindErrorResponse(TextNotFound)

\* find of a pile without a directory: Ok(String::new())
FindMissingResult == FindOkResponse(<<>>)

\* find: dir_path.is_dir() and fs::read_dir(dir_path).  Nothing removes a
\* directory, so the two calls are one step
FindOpen(c) ==
    /\ pc[c] = "find_open"
    /\ UNCHANGED <<listener, stored>>
    /\ UNCHANGED <<fs, sent, nread, out>>
    /\ LET dir_path == pile_path(h[c].req.pile) IN
       IF is_dir(fs, dir_path)
       THEN /\ pc' = [pc EXCEPT ![c] = "find_scan"]
            /\ h' = [h EXCEPT ![c].snap = read_dir(fs, PathOf(dir_path))]
       ELSE Return(c, [h[c] EXCEPT !.missing = TRUE], FindMissingResult)

\* a loop body whose comparison is inverted
FindCheck_Inverted(json_content, field_name, compare_name) ==
    LET value == get(json_content, field_name) IN
    IF value = None THEN "next"
    ELSE IF as_str(value[1]) = None THEN "panic"
    ELSE IF as_str(value[1])[1] # compare_name THEN "match"
    ELSE "next"

\* a loop body that compares without regard to case
FindCheck_IgnoreCase(json_content, field_name, compare_name) ==
    LET value == get(json_content, field_name) IN
    IF value = None THEN "next"
    ELSE IF as_str(value[1]) = None THEN "panic"
    ELSE IF to_lowercase(as_str(value[1])[1]) = to_lowercase(compare_name)
         THEN "match"
    ELSE "next"

\* what the loop body of find does with the content of one file: "match"
\* (return the record), "next" (go on with the scan) or "panic"
FindCheck(json_content, field_name, compare_name) ==
    LET value == get(json_content, field_name) IN
    IF value = None THEN "next"
    ELSE IF as_str(value[1]) = None THEN "panic"
    ELSE IF as_str(value[1])[1] = compare_name THEN "match"
    ELSE "next"

\* a scan that skips a file that from_str rejects and goes on
FindInvalidRecord_Skipped(c, t, e) ==
    /\ h' = [h EXCEPT ![c] = t]
    /\ pc' = [pc EXCEPT ![c] = "find_scan"]

\* find meets a file that from_str rejects: the ? operator returns the
\* error of serde_json
FindInvalidRecord(c, t, e) == Return(c, t, FindErrorResponse(e))

\* another task has created or truncated the file and not yet written it,
\* and what it is going to write is JSON
BeingWritten(c, entry) ==
    \E d \in Conns \ {c} :
      /\ pc[d] = "create_write"
      /\ PathOf(file_path(h[d].req.pile, h[d].uuid)) = entry
      /\ from_str(h[d].data).ok

\* find: one turn of the loop over the directory entries, in any order, up
\* to the open(2) and the fstat(2) of fs::read_to_string.  An entry created
\* after read_dir may or may not be listed: the scan may read it, and it may
\* end without having read it.  A directory can be opened; its read(2)
\* fails, and since it stays a directory the failure is part of this step
FindEntry(c) ==
    /\ pc[c] = "find_scan"
    /\ UNCHANGED <<listener, stored>>
    /\ UNCHANGED <<fs, sent, nread, out>>
    /\ \E entry \in read_dir(fs, PathOf(pile_path(h[c].req.pile))) \ h[c].visited :
         LET t == [h[c] EXCEPT !.visited = @ \cup {entry}]
             text == entry_path(pile_path(h[c].req.pile), entry[Len(entry)])
         IN  IF PathError(text) # ""
             THEN Return(c, t, FindErrorResponse(ErrnoText(PathError(text))))
             ELSE IF entry \in fs.dirs
             THEN Return(c, t, FindErrorResponse(TextIsADirectory))
             ELSE LET size == Len(fs.files[entry]) IN
                  /\ pc' = [pc EXCEPT ![c] = "find_read"]
                  /\ h' = [h EXCEPT ![c] =
                             [@ EXCEPT !.entry = entry, !.hint = size,
                                       !.buf = <<>>, !.cap = size,
                                       !.phase = IF size = 0 THEN "first"
                                                 ELSE "top"]]

\* find: read_to_string has returned file_content, or the error of a stream
\* that is not UTF-8; the rest of the loop body
FindFile(c, t, file_content) ==
    IF ~Utf8Valid(file_content, 1)
    THEN Return(c, t, FindErrorResponse(TextInvalidUtf8))
    ELSE LET json_content == from_str(file_content) IN
         IF ~json_content.ok
         THEN FindInvalidRecord(c, [t EXCEPT !.malformed = TRUE,
                                             !.torn = BeingWritten(c, h[c].entry)],
                                JsonErrorText(file_content, json_content))
         ELSE LET verdict == FindCheck(json_content, h[c].req.field,
                                       h[c].req.compare)
              IN  IF verdict = "panic" THEN Panic(c, t)
                  ELSE IF verdict = "match"
                       THEN Return(c, t,
                              FindOkResponse(encode_utf8_to_hex(file_content)))
                  ELSE /\ h' = [h EXCEPT ![c] = t]
                       /\ pc' = [pc EXCEPT ![c] = "find_scan"]

\* find: one read(2) of io::default_read_to_end on the open file.  The
\* buffer starts with the capacity fstat reported; a buffer that became full
\* without having grown, and a file of size 0, are read into a probe of
\* PROBE_SIZE bytes; a read of no bytes ends read_to_string.  phase is
\* "first" before the loop, "top" at the beginning of a turn of the loop,
\* "mid" after the probe of a turn
FindRead(c) ==
    /\ pc[c] = "find_read"
    /\ UNCHANGED <<listener, stored>>
    /\ UNCHANGED <<fs, sent, nread, out>>
    /\ LET t == h[c]
           len == Len(t.buf)
           probe == \/ t.phase = "first"
                    \/ t.phase = "top" /\ len = t.cap /\ t.cap = t.hint
           cap == IF ~probe /\ len = t.cap THEN Grow(t.cap, len + ProbeSize)
                  ELSE t.cap
           count == IF probe THEN ProbeSize
                    ELSE Min(cap - len, MaxReadSize(t.hint))
           bytes == read(fs.files[t.entry], len, count)
           closed == [t EXCEPT !.visited = @ \cup {t.entry}, !.entry = <<>>,
                               !.hint = 0, !.buf = <<>>, !.cap = 0,
                               !.phase = ""]
       IN  IF bytes = <<>>
           THEN FindFile(c, closed, t.buf)
           ELSE /\ h' = [h EXCEPT ![c] =
                           [t EXCEPT !.buf = t.buf \o bytes,
                                     !.cap = IF len + Len(bytes) > cap
                                             THEN Grow(cap, len + Len(bytes))
                                             ELSE cap,
                                     !.phase = IF t.phase = "top" /\ probe
                                               THEN "mid" ELSE "top"]]
                /\ UNCHANGED pc

\* find: the loop has gone through the directory, Ok(String::new())
FindEnd(c) ==
    /\ pc[c] = "find_scan"
    /\ UNCHANGED <<listener, stored>>
    /\ h[c].snap \subseteq h[c].visited
    /\ UNCHANGED <<fs, sent, nread, out>>
    /\ Return(c, h[c], FindOkResponse(<<>>))

\* lines.send(response.serialize()) returns Ok, and the break: the loop ends
\* and the connection is closed
Send(c) ==
    /\ pc[c] = "send"
    /\ UNCHANGED <<listener, stored>>
    /\ out' = [out EXCEPT ![c] = Append(@, serialize(h[c].resp[1]))]
    /\ pc' = [pc EXCEPT ![c] = "closed"]
    /\ UNCHANGED <<fs, h, sent, nread>>

\* lines.send(response.serialize()) returns Err, the peer having closed or
\* reset the connection: the error is printed, nothing reaches the peer, and
\* the break ends the loop
SendError(c) ==
    /\ pc[c] = "send"
    /\ UNCHANGED <<listener, stored>>
    /\ pc' = [pc EXCEPT ![c] = "closed"]
    /\ UNCHANGED <<fs, h, sent, nread, out>>

\* the steps of the task of connection slot c, whatever line it reads
TaskStep(c) ==
    \/ StreamEnd(c)
    \/ CreateDir(c)
    \/ CreateStat(c)
    \/ CreateOpen(c)
    \/ CreateWrite(c)
    \/ FindOpen(c)
    \/ FindEntry(c)
    \/ FindRead(c)
    \/ FindEnd(c)
    \/ Send(c)
    \/ SendError(c)

\* one connection at a time, sending any of Lines
Next ==
    \/ AcceptError
    \/ \E c \in Serial :
         \/ Accept(c)
         \/ ClientSend(c)
         \/ RecvLine(c)
         \/ RecvDecodeError(c)
         \/ TaskStep(c)

Spec == Init /\ [][Next]_vars

\* two connections at the same time, sending any of ConcLines, every line
\* well framed and every accept a success
NextConc ==
    \E c \in Conns :
      \/ Accept(c)
      \/ ClientSend(c)
      \/ RecvLineConc(c)
      \/ TaskStep(c)

SpecConc == Init /\ [][NextConc]_vars

\* the steps of the task of connection slot c when it holds a CREATE
CreateStep(c) ==
    \/ StreamEnd(c)
    \/ CreateDir(c)
    \/ CreateStat(c)
    \/ CreateOpen(c)
    \/ CreateWrite(c)
    \/ Send(c)
    \/ SendError(c)

\* two connections at the same time, sending any of CreateLines, every line
\* well framed and every accept a success
NextCreates ==
    \E c \in Conns :
      \/ Accept(c)
      \/ ClientSend(c)
      \/ RecvLineCreates(c)
      \/ CreateStep(c)

SpecCreates == Init /\ [][NextCreates]_vars

\* one connection at a time, sending any of PathLines, every line well
\* framed and every accept a success
NextPaths ==
    \E c \in Serial :
      \/ Accept(c)
      \/ ClientSend(c)
      \/ RecvLinePaths(c)
      \/ TaskStep(c)

SpecPaths == Init /\ [][NextPaths]_vars

\* one connection after another, sending any of ListenerLines; accepts and
\* lines may fail
NextListener ==
    \/ AcceptError
    \/ \E c \in Serial :
         \/ Accept(c)
         \/ ClientSend(c)
         \/ RecvLineListener(c)
         \/ RecvDecodeError(c)
         \/ TaskStep(c)

SpecListener == Init /\ [][NextListener]_vars

(***************************************************************************)
(* Vocabulary of the properties.                                           *)
(***************************************************************************)
\* the task of slot c has ended, normally or by a panic
Ended(c) == pc[c] \in {"closed", "panicked"}

\* handle_request has been called with a decoded line on slot c
Decoded(c) == h[c].line # None

\* handle_request has finished on slot c, by returning or by panicking
Handled(c) == pc[c] \in {"send", "closed", "panicked"}

\* the response of slot c has reached the peer: lines.send returned Ok
Delivered(c) == pc[c] = "closed" /\ out[c] # <<>>

\* the send of the response of slot c failed: the peer was gone
Lost(c) == pc[c] = "closed" /\ h[c].resp # None /\ out[c] = <<>>

\* s begins with the text pre
StartsWith(s, pre) == Len(s) >= Len(pre) /\ SubSeq(s, 1, Len(pre)) = pre

\* the second space-separated token of a line: the pile as the client wrote it
PileToken(line) == splitn(line, 3, 32)[2]

\* s holds an uppercase ASCII letter
HasUpper(s) == \E i \in 1..Len(s) : s[i] >= 65 /\ s[i] <= 90

\* every byte of s is ASCII
IsAscii(s) == \A i \in 1..Len(s) : s[i] < 128

\* pile tokens with letters that are not ASCII, each with its lowercase
LowercasePairs ==
    {<<PileEcoleCap, PileEcole>>, <<PileSigmaCap, PileSigma>>,
     <<PileEcole, PileEcole>>}

\* a and b are the same text up to the case of their ASCII letters
SameIgnoringCase(a, b) ==
    /\ Len(a) = Len(b)
    /\ \A i \in 1..Len(a) :
         (IF a[i] >= 97 /\ a[i] <= 122 THEN a[i] - 32 ELSE a[i])
           = (IF b[i] >= 97 /\ b[i] <= 122 THEN b[i] - 32 ELSE b[i])

\* the contents of the record files of a pile
PileRecords(pile) ==
    LET p == PathOf(pile_path(pile)) IN
    {fs.files[q] : q \in read_dir(fs, p) \cap DOMAIN fs.files}

\* the record is a JSON object whose field is a string equal to value
FieldEquals(content, field, value) ==
    LET json == from_str(content) IN
    /\ json.ok
    /\ get(json, field) # None
    /\ as_str(get(json, field)[1]) = Some(value)

\* the record is a JSON object whose field exists and is not a string
FieldNotString(content, field) ==
    LET json == from_str(content) IN
    /\ json.ok
    /\ get(json, field) # None
    /\ as_str(get(json, field)[1]) = None

(***************************************************************************)
(* C1: a connection serves at most one request: whatever lines the client  *)
(* sends, the handler sends exactly one response line, for the first       *)
(* decoded line, then closes, and never reads or answers a later line.     *)
(* (A response that cannot be sent because the peer is gone is not        *)
(* counted against the claim.)                                             *)
(* Fails: a task that panics closes the connection with no response.       *)
(***************************************************************************)
C1_OneResponsePerConnection ==
    \A c \in Conns :
      /\ Len(out[c]) <= 1
      /\ (Ended(c) /\ Decoded(c) /\ ~Lost(c)) => Len(out[c]) = 1
      /\ Len(out[c]) = 1 => pc[c] = "closed"

(***************************************************************************)
(* C2: every decoded line is answered with exactly one response line       *)
(* before the connection closes, "0 <message>" on success and              *)
(* "1 Error: <message>" on a parse or storage failure; no request makes    *)
(* the handler end without a response.  (A response that cannot be sent    *)
(* because the peer is gone is not counted against the claim.)             *)
(* Fails: CREATE or FIND without arguments, and a FIND that meets a field  *)
(* that is not a string, end the task by a panic.                          *)
(***************************************************************************)
C2_EveryLineAnswered ==
    \A c \in Conns :
      (Ended(c) /\ Decoded(c) /\ ~Lost(c)) =>
        /\ pc[c] = "closed"
        /\ h[c].resp # None
        /\ out[c] = <<serialize(h[c].resp[1])>>
        /\ \/ h[c].resp[1].tag = "Ok" /\ StartsWith(out[c][1], <<48, 32>>)
           \/ h[c].resp[1].tag = "Error"
              /\ StartsWith(out[c][1], <<49, 32, 69, 114, 114, 111, 114, 58, 32>>)

(***************************************************************************)
(* C3: Request::parse returns a parse error, never a crash, for a CREATE   *)
(* or FIND line that lacks an argument, naming the first missing one.      *)
(* Fails: "CREATE" and "FIND" alone panic at the unwrap of the remainder.  *)
(***************************************************************************)
C3_MissingArgumentIsParseError ==
    \A c \in Conns :
      Decoded(c) =>
        LET line == h[c].line[1] IN
        /\ line = VerbCreate
             => h[c].resp = Some(ResponseError(1, MsgCreateNoPile))
        /\ line \in {Join(VerbCreate, p) : p \in CreatePiles}
             => h[c].resp = Some(ResponseError(1, MsgCreateNoData))
        /\ line = VerbFind
             => h[c].resp = Some(ResponseError(1, MsgFindNoPile))
        /\ line \in {Join(VerbFind, p) : p \in FindPiles}
             => h[c].resp = Some(ResponseError(1, MsgFindNoField))
        /\ line \in {Join(Join(VerbFind, p), f) : p \in FindPiles, f \in Fields}
             => h[c].resp = Some(ResponseError(1, MsgFindNoCompare))

(***************************************************************************)
(* C4: the empty line yields the "empty request" parse error, which is not *)
(* the "unknown command" error of an unrecognized verb.                    *)
(* Fails: splitn yields the empty text as the verb, so the empty line is   *)
(* answered as the unknown command "".                                     *)
(***************************************************************************)
C4_EmptyLineIsEmptyRequest ==
    \A c \in Conns :
      (Decoded(c) /\ h[c].line[1] = <<>>) =>
        /\ h[c].resp = Some(ResponseError(1, MsgEmptyRequest))
        /\ ~StartsWith(h[c].resp[1].error, MsgUnknownCommand)

(***************************************************************************)
(* C5: FIND on a pile whose directory does not exist is answered "0 ":     *)
(* success with an empty payload, never an error, whatever the field, the  *)
(* compare value and the other piles; "0 " is the line the peer receives   *)
(* when the send succeeds.                                                 *)
(***************************************************************************)
C5_FindMissingPileIsEmptySuccess ==
    \A c \in Conns :
      h[c].missing =>
        /\ pc[c] \in {"send", "closed"}
        /\ h[c].resp = Some(ResponseOk(0, Some(<<>>)))
        /\ Delivered(c) => out[c] = << <<48, 32>> >>

\* a FIND of a pile without a directory has been answered while another pile
\* exists and holds a record
C5_Witness ==
    \E c \in Conns :
      /\ h[c].missing
      /\ Delivered(c)
      /\ h[c].req.pile = PileOther
      /\ PileRecords(PileUsers) # {}

(***************************************************************************)
(* C6: after a CREATE of a record r whose field f is the string v, a FIND  *)
(* of f = v on that pile returns the hex of a stored record of the pile    *)
(* whose field f equals v, whatever other records the pile holds.          *)
(* Fails: a record that is not JSON, or whose f is not a string, met by    *)
(* the scan before r ends the FIND by an error or a panic.                 *)
(***************************************************************************)
C6_CreateThenFind ==
    \A c \in Conns :
      ( /\ h[c].req.kind = "Find"
        /\ Handled(c)
        /\ \E r \in PileRecords(h[c].req.pile) :
             FieldEquals(r, h[c].req.field, h[c].req.compare) )
      => \E r \in PileRecords(h[c].req.pile) :
           /\ FieldEquals(r, h[c].req.field, h[c].req.compare)
           /\ h[c].resp = Some(ResponseOk(0, Some(encode_utf8_to_hex(r))))

\* C6 as amended: after such a CREATE, the FIND returns the hex of a stored
\* record whose field f equals v, unless the scan reads, before any matching
\* record, a file that is not JSON (the FIND is then an error response with
\* the message of serde_json for that file) or a
\* record whose f is not a string (the task then panics); it never answers
\* with an empty success or with a record that does not match
C6_CreateThenFindUnlessBadRecordFirst ==
    \A c \in Conns :
      ( /\ h[c].req.kind = "Find"
        /\ Handled(c)
        /\ \E r \in PileRecords(h[c].req.pile) :
             FieldEquals(r, h[c].req.field, h[c].req.compare) )
      => \/ \E r \in PileRecords(h[c].req.pile) :
              /\ FieldEquals(r, h[c].req.field, h[c].req.compare)
              /\ h[c].resp = Some(ResponseOk(0, Some(encode_utf8_to_hex(r))))
         \/ /\ h[c].malformed
            /\ \E q \in h[c].visited :
                 /\ ~from_str(fs.files[q]).ok
                 /\ h[c].resp = Some(FindErrorResponse(
                        JsonErrorText(fs.files[q], from_str(fs.files[q]))))
            /\ \A q \in h[c].visited :
                 ~FieldEquals(fs.files[q], h[c].req.field, h[c].req.compare)
         \/ /\ pc[c] = "panicked"
            /\ \E q \in h[c].visited : FieldNotString(fs.files[q], h[c].req.field)
            /\ \A q \in h[c].visited :
                 ~FieldEquals(fs.files[q], h[c].req.field, h[c].req.compare)

\* a FIND has returned the one record of the pile whose "name" is "alice",
\* from a pile that also holds a record that is not JSON
C6_Witness ==
    \E c \in Conns :
      /\ h[c].req.kind = "Find"
      /\ pc[c] = "closed"
      /\ out[c] = << <<48, 32>> \o encode_utf8_to_hex(DocAlice) >>
      /\ PileRecords(h[c].req.pile) = {DocAlice, DocBad}

(***************************************************************************)
(* C7: a record whose named field exists and is not a string counts as no  *)
(* match: the scan goes on and the FIND ends with a response.              *)
(* Fails: as_str().unwrap() panics on such a record.                       *)
(***************************************************************************)
C7_NonStringFieldIsNoMatch ==
    \A c \in Conns :
      ( /\ h[c].req.kind = "Find"
        /\ \E q \in h[c].visited \cap DOMAIN fs.files :
             FieldNotString(fs.files[q], h[c].req.field) )
      => pc[c] \in {"find_scan", "send", "closed"}

(***************************************************************************)
(* C8: FIND never skips a malformed record: once the scan has read a file  *)
(* that is not JSON, the FIND ends with an error response (code 1), never  *)
(* with a match or an empty success; the line the peer receives when the   *)
(* send succeeds begins with "1 Error: ".                                  *)
(***************************************************************************)
C8_MalformedRecordIsError ==
    \A c \in Conns :
      h[c].malformed =>
        /\ pc[c] \in {"send", "closed"}
        /\ h[c].resp # None
        /\ h[c].resp[1].tag = "Error"
        /\ h[c].resp[1].exit_code = 1
        /\ StartsWith(h[c].resp[1].error, MsgFindFailed)
        /\ Delivered(c) =>
             /\ Len(out[c]) = 1
             /\ StartsWith(out[c][1], <<49, 32, 69, 114, 114, 111, 114, 58, 32>>)

\* a FIND has been answered with an error after reading a file that is not
\* JSON, in a pile that also holds a record matching the request
C8_Witness ==
    \E c \in Conns :
      /\ h[c].malformed
      /\ Delivered(c)
      /\ \E r \in PileRecords(h[c].req.pile) :
           FieldEquals(r, h[c].req.field, h[c].req.compare)

(***************************************************************************)
(* C9: pile names are lowercased before any filesystem operation: no       *)
(* directory or file path holds an uppercase letter, and the pile a        *)
(* request works on is the lowercase text that equals, up to case, the     *)
(* pile the client wrote (for letters outside ASCII: a capital E with      *)
(* acute becomes the small one, and the capital sigmas of a word become a  *)
(* small and a final one); so "Users" and "users" are one directory.       *)
(***************************************************************************)
C9_PileNamesLowercased ==
    /\ \A p \in fs.dirs \cup DOMAIN fs.files :
         Len(p) >= 2 => ~HasUpper(p[2])
    /\ \A c \in Conns :
         h[c].req.kind \in {"Create", "Find"} =>
           /\ ~HasUpper(h[c].req.pile)
           /\ IsAscii(PileToken(h[c].line[1])) =>
                SameIgnoringCase(h[c].req.pile, PileToken(h[c].line[1]))
           /\ \A pair \in LowercasePairs :
                PileToken(h[c].line[1]) = pair[1] => h[c].req.pile = pair[2]
           /\ IsAscii(PileToken(h[c].line[1]))
                \/ \E pair \in LowercasePairs : PileToken(h[c].line[1]) = pair[1]
           /\ (pc[c] = "find_scan" =>
                 h[c].snap \subseteq
                   {q \in DOMAIN fs.files : q[2] = h[c].req.pile})

\* a FIND sent for "Users" has returned the record stored in the directory
\* "users"
C9_Witness ==
    \E c \in Conns :
      /\ h[c].req.kind = "Find"
      /\ PileToken(h[c].line[1]) = PileUsersCap
      /\ h[c].resp = Some(ResponseOk(0, Some(encode_utf8_to_hex(DocAlice))))
      /\ DocAlice \in PileRecords(PileUsers)
      /\ PathOf(pile_path(PileUsersCap)) \notin fs.dirs

(***************************************************************************)
(* C10: PING is always answered "0 ", success without a message, after     *)
(* any earlier requests and in any state of the filesystem; "0 " is the    *)
(* line the peer receives when the send succeeds.                          *)
(***************************************************************************)
C10_PingAlwaysOk ==
    \A c \in Conns :
      (Decoded(c) /\ splitn(h[c].line[1], 2, 32)[1] = VerbPing) =>
        /\ pc[c] \in {"send", "closed"}
        /\ h[c].resp = Some(ResponseOk(0, None))
        /\ Delivered(c) => out[c] = << <<48, 32>> >>

\* a PING has been answered "0 " while the pile holds a record that is not
\* JSON, on which a FIND fails
C10_Witness ==
    \E c \in Conns :
      /\ Decoded(c)
      /\ h[c].line[1] = VerbPing
      /\ pc[c] = "closed"
      /\ out[c] = << <<48, 32>> >>
      /\ \E r \in PileRecords(PileUsers) : ~from_str(r).ok

(***************************************************************************)
(* C11: the listener is never stopped by a connection.  The accept loop    *)
(* runs on after an accept error and after every outcome of a handler; a   *)
(* slot whose task has ended, in whatever way, can be accepted again; and  *)
(* a handler that failed has no part in the response of another            *)
(* connection: the response a FIND receives (the one request whose         *)
(* response depends on what is stored) is a response find returns on the   *)
(* storage that holds what the handlers that succeeded have stored, and    *)
(* nothing else.  Stated for connections that come one after another, so   *)
(* that the storage does not change while a FIND runs.                     *)
(***************************************************************************)
\* the responses the loop body of find can return for the entry of a pile
\* on the storage f: none when it goes on to the next entry or panics
EntryAnswers(f, entry, field_name, compare_name) ==
    IF entry \in f.dirs THEN {FindErrorResponse(TextIsADirectory)}
    ELSE LET file_content == f.files[entry]
             json_content == from_str(file_content)
         IN  IF ~Utf8Valid(file_content, 1)
             THEN {FindErrorResponse(TextInvalidUtf8)}
             ELSE IF ~json_content.ok
             THEN {FindErrorResponse(JsonErrorText(file_content, json_content))}
             ELSE IF FindCheck(json_content, field_name, compare_name) = "match"
             THEN {FindOkResponse(encode_utf8_to_hex(file_content))}
             ELSE {}

\* the loop body of find goes on to the next entry
EntryPassed(f, entry, field_name, compare_name) ==
    /\ entry \in DOMAIN f.files
    /\ Utf8Valid(f.files[entry], 1)
    /\ from_str(f.files[entry]).ok
    /\ FindCheck(from_str(f.files[entry]), field_name, compare_name) = "next"

\* the responses find can return on the storage f, in whatever order it
\* reads the directory: the empty success when the pile has no directory or
\* the scan passes every entry, else what the loop body returns for an entry
FindAnswers(f, req) ==
    LET dir_path == pile_path(req.pile)
        entries == read_dir(f, PathOf(dir_path))
    IN  IF ~is_dir(f, dir_path) THEN {FindMissingResult}
        ELSE UNION {EntryAnswers(f, e, req.field, req.compare) : e \in entries}
             \cup (IF \A e \in entries :
                        EntryPassed(f, e, req.field, req.compare)
                   THEN {FindOkResponse(<<>>)} ELSE {})

\* the storage that holds what the calls of create that returned Ok have
\* made and nothing else: the record files they wrote, with the content
\* they have (a file is written by create alone, in the step by which it
\* returns Ok), and the directories on the way to them
StoredOnly ==
    [dirs  |-> {<<>>} \cup UNION {{SubSeq(p, 1, k) : k \in 0..(Len(p) - 1)} :
                                    p \in stored},
     files |-> [p \in stored |-> fs.files[p]]]

C11_ListenerNeverStopped ==
    /\ [](listener.running)
    /\ [](\A c \in Conns : Ended(c) => ENABLED Accept(c))
    /\ [](\A c \in Conns :
            (Delivered(c) /\ h[c].req.kind = "Find")
              => h[c].resp[1] \in FindAnswers(StoredOnly, h[c].req))

(***************************************************************************)
(* C12: concurrent CREATEs to one pile are safe when their identifiers     *)
(* differ.  In every interleaving of their steps (both creating the        *)
(* missing directory too) each CREATE whose payload decodes returns        *)
(* success with its identifier; its write leaves in the pile the file of   *)
(* that identifier holding exactly its decoded payload; and a step of a    *)
(* CREATE changes no file but the one named by its own identifier, so the  *)
(* file of a CREATE with another identifier stays as that CREATE wrote it. *)
(* (Identifiers that differ: no other CREATE writes the file, which is     *)
(* still as the open of this CREATE left it when it writes.)               *)
(***************************************************************************)
\* the path of the file the CREATE of slot c writes
CreatePath(c) == PathOf(file_path(h[c].req.pile, h[c].uuid))

\* the CREATE of slot c has decoded its payload
CreateDecoded(c) == h[c].req.kind = "Create" /\ h[c].uuid # <<>>

C12_ConcurrentCreatesSafe ==
    /\ [](\A c \in Conns :
            (CreateDecoded(c) /\ Handled(c)) =>
               h[c].resp = Some(ResponseOk(0, Some(h[c].uuid))))
    /\ [][ /\ \A c \in Conns :
               ( /\ pc[c] = "create_write" /\ pc'[c] # "create_write"
                 /\ fs.files[CreatePath(c)] = <<>> ) =>
                 /\ CreatePath(c) \in DOMAIN fs'.files
                 /\ fs'.files[CreatePath(c)] = h[c].data
                 /\ Len(CreatePath(c)) = 3 /\ CreatePath(c)[2] = h[c].req.pile
           /\ \A p \in DOMAIN fs'.files :
               (p \notin DOMAIN fs.files \/ fs'.files[p] # fs.files[p]) =>
                 \E c \in Conns :
                   /\ pc[c] \in {"create_open", "create_write"}
                   /\ pc'[c] # pc[c]
                   /\ CreatePath(c) = p
           /\ DOMAIN fs.files \subseteq DOMAIN fs'.files ]_vars

\* two CREATEs to one pile, both in flight, have both returned success with
\* different identifiers, and the pile holds the two files with their
\* payloads
C12_Witness ==
    /\ pc[1] = "send" /\ pc[2] = "send"
    /\ CreateDecoded(1) /\ CreateDecoded(2)
    /\ h[1].req.pile = h[2].req.pile
    /\ h[1].uuid # h[2].uuid
    /\ h[1].data # h[2].data
    /\ h[1].resp = Some(ResponseOk(0, Some(h[1].uuid)))
    /\ h[2].resp = Some(ResponseOk(0, Some(h[2].uuid)))
    /\ fs.files[CreatePath(1)] = h[1].data
    /\ fs.files[CreatePath(2)] = h[2].data

(***************************************************************************)
(* C13: a decode error on a line produces no response and does not close   *)
(* the connection: the step that takes the error leaves the task awaiting  *)
(* a line with nothing sent, and once a line has been decoded after it the *)
(* task ends with exactly one response sent (unless the peer is gone when  *)
(* it is sent).                                                            *)
(***************************************************************************)
C13_DecodeErrorIgnored ==
    /\ [][\A c \in Conns :
            (h'[c].errored /\ ~h[c].errored) =>
               /\ pc'[c] = "await"
               /\ out'[c] = out[c] ]_vars
    /\ [](\A c \in Conns :
            (h[c].errored /\ Decoded(c) /\ Ended(c) /\ ~Lost(c))
               => Len(out[c]) = 1)

(***************************************************************************)
(* C14: a FIND that returns a non-empty payload returns the hex of the     *)
(* whole content of a file of the pile whose field is a string equal to    *)
(* the compare value, byte for byte; that file is the only one the scan    *)
(* has read that satisfies this, so it is the first in scan order and the  *)
(* scan stopped there.  A FIND of an existing pile returns the empty       *)
(* payload only when the scan has read every entry and none satisfies it.  *)
(***************************************************************************)
\* the files the scan of slot c has read that satisfy its predicate
VisitedMatches(c) ==
    {q \in h[c].visited \cap DOMAIN fs.files :
       FieldEquals(fs.files[q], h[c].req.field, h[c].req.compare)}

\* the FIND of slot c has returned success with this payload
FindReturned(c) ==
    /\ h[c].req.kind = "Find"
    /\ pc[c] \in {"send", "closed"}
    /\ h[c].resp # None
    /\ h[c].resp[1].tag = "Ok"

C14_FindReturnsFirstExactMatch ==
    \A c \in Conns :
      FindReturned(c) =>
        LET payload == h[c].resp[1].message[1]
            dir == PathOf(pile_path(h[c].req.pile))
        IN  /\ h[c].visited \subseteq read_dir(fs, dir)
            /\ payload # <<>> =>
                 /\ Cardinality(VisitedMatches(c)) = 1
                 /\ \A q \in VisitedMatches(c) :
                      payload = encode_utf8_to_hex(fs.files[q])
            /\ (payload = <<>> /\ ~h[c].missing) =>
                 /\ h[c].visited = read_dir(fs, dir)
                 /\ VisitedMatches(c) = {}

\* a FIND has returned a record after reading another one first: the pile
\* holds two records, one of them without the field, and the scan has read
\* both
C14_Witness ==
    \E c \in Conns :
      /\ FindReturned(c)
      /\ h[c].resp[1].message[1] = encode_utf8_to_hex(DocAlice)
      /\ Cardinality(h[c].visited) = 2
      /\ PileRecords(h[c].req.pile) = {DocAlice, DocOther}

(***************************************************************************)
(* C15: a CREATE whose payload does not decode returns the error response  *)
(* of create (code 1) and the step that handles it leaves the filesystem   *)
(* as it was: no directory appears and no file is written.                 *)
(***************************************************************************)
\* the task record t holds a CREATE whose payload does not decode
CreateUndecodable(t) ==
    /\ t.req.kind = "Create"
    /\ ~decode_hex_to_utf8(t.req.data).ok

C15_UndecodableCreateChangesNothing ==
    /\ [](\A c \in Conns :
            (Decoded(c) /\ CreateUndecodable(h[c])) =>
               /\ pc[c] \in {"send", "closed"}
               /\ h[c].resp =
                    Some(ResponseError(1, MsgCreateFailed \o TextInvalidPayload)))
    /\ [][\A c \in Conns :
            (pc[c] = "await" /\ pc'[c] # "await" /\ CreateUndecodable(h'[c]))
               => fs' = fs ]_vars

\* a CREATE of a payload that is not hex has been answered with the error,
\* and the storage root is still empty: no pile directory, no file
C15_Witness ==
    \E c \in Conns :
      /\ Decoded(c) /\ CreateUndecodable(h[c])
      /\ pc[c] = "closed"
      /\ Len(out[c]) = 1 /\ out[c][1][1] = 49
      /\ fs = [dirs |-> {<<>>}, files |-> <<>>]

(***************************************************************************)
(* C16: CREATE does not check its identifier against the files of the      *)
(* pile.  Opening the file never fails because a file of that name exists; *)
(* when one exists the set of files stays the same, otherwise exactly the  *)
(* new file is added; the write puts the decoded payload in that file; no  *)
(* other file changes in either step; and the CREATE returns success with  *)
(* the identifier, the file then holding the new payload.                  *)
(***************************************************************************)
\* the files other than p are the same before and after the step
OthersKept(p) ==
    \A q \in (DOMAIN fs.files \cup DOMAIN fs'.files) \ {p} :
      /\ q \in DOMAIN fs.files /\ q \in DOMAIN fs'.files
      /\ fs'.files[q] = fs.files[q]

C16_CollisionOverwrites ==
    /\ [][\A c \in Conns :
            /\ (pc[c] = "create_open" /\ pc'[c] # "create_open") =>
                 /\ pc'[c] = "create_write"
                 /\ IF CreatePath(c) \in DOMAIN fs.files
                    THEN DOMAIN fs'.files = DOMAIN fs.files
                    ELSE /\ DOMAIN fs'.files = DOMAIN fs.files \cup {CreatePath(c)}
                         /\ Cardinality(DOMAIN fs'.files)
                              = Cardinality(DOMAIN fs.files) + 1
                 /\ OthersKept(CreatePath(c))
            /\ (pc[c] = "create_write" /\ pc'[c] # "create_write") =>
                 /\ DOMAIN fs'.files = DOMAIN fs.files
                 /\ fs'.files[CreatePath(c)] = h[c].data
                 /\ OthersKept(CreatePath(c))
                 /\ h'[c].resp = Some(ResponseOk(0, Some(h[c].uuid))) ]_vars
    /\ [](\A c \in Conns :
            (CreateDecoded(c) /\ Handled(c)) =>
               /\ h[c].resp = Some(ResponseOk(0, Some(h[c].uuid)))
               /\ fs.files[CreatePath(c)] = h[c].data)

\* a CREATE has returned success after it drew the identifier of a record
\* of the pile that held another content: the file holds the new payload
\* and it is the only file of the pile
C16_Witness ==
    \E c \in Conns :
      /\ CreateDecoded(c)
      /\ pc[c] = "closed"
      /\ h[c].replaced
      /\ out[c] = << <<48, 32>> \o h[c].uuid >>
      /\ fs.files[CreatePath(c)] = h[c].data
      /\ Cardinality(DOMAIN fs.files) = 1

(***************************************************************************)
(* C17: a FIND that overlaps a CREATE of a JSON record in its pile sees    *)
(* the whole record or none of it: when every other file of the pile is a  *)
(* JSON record, the FIND that read the new file between its creation and   *)
(* its write returns success, as it would before or after the CREATE.      *)
(* Fails: fs::write creates the file empty and writes it afterwards; the   *)
(* FIND reads the empty file, from_str rejects it and the FIND returns an  *)
(* error.                                                                  *)
(***************************************************************************)
\* every file of the pile of slot c is a JSON record, or will be when the
\* CREATE that has opened it has written it
PileIsJson(c) ==
    \A q \in read_dir(fs, PathOf(pile_path(h[c].req.pile))) :
      /\ q \in DOMAIN fs.files
      /\ from_str(fs.files[q]).ok \/ BeingWritten(c, q)

C17_FindSeesWholeRecords ==
    \A c \in Conns :
      ( /\ h[c].req.kind = "Find"
        /\ h[c].torn
        /\ pc[c] \in {"send", "closed"}
        /\ PileIsJson(c) )
      => h[c].resp[1].tag = "Ok"

(***************************************************************************)
(* C18: every file is at <storage-root>/<pile>/<name>: two levels below    *)
(* the storage root, never directly in it and never outside it; and a FIND *)
(* reads only entries of the directory <storage-root>/<pile> of the pile   *)
(* it names, a non-empty name without separators.                          *)
(* Fails: the pile token goes into the path as the client wrote it.  An    *)
(* empty token puts the file directly in the storage root, `..` puts it    *)
(* outside.                                                                *)
(***************************************************************************)
\* the storage root, as a path
RootPath == PathOf(StorageRoot)

\* p is <storage-root>/<one name>/<one name>
InSomePile(p) ==
    /\ Len(p) = Len(RootPath) + 2
    /\ SubSeq(p, 1, Len(RootPath)) = RootPath

C18_FilesStayInTheirPile ==
    /\ \A p \in DOMAIN fs.files : InSomePile(p)
    /\ \A c \in Conns :
         \A q \in h[c].visited :
           /\ InSomePile(q)
           /\ q[Len(RootPath) + 1] = h[c].req.pile

(***************************************************************************)
(* C19: only a CREATE that has passed parsing changes the stored state.    *)
(* Every step that changes the filesystem is a step of a task that holds a *)
(* parsed CREATE and is at one of its filesystem calls; a step of a task   *)
(* that holds a FIND, a PING or a rejected line leaves every directory and *)
(* file as it was; and no step removes a directory or a file.              *)
(***************************************************************************)
\* the step is one of the task of slot c
StepOf(c) == pc'[c] # pc[c] \/ h'[c] # h[c] \/ out'[c] # out[c]

C19_OnlyCreateChangesStorage ==
    [][ /\ fs' # fs =>
             \E c \in Conns :
               /\ StepOf(c)
               /\ h[c].req.kind = "Create"
               /\ pc[c] \in {"create_dir", "create_stat", "create_open", "create_write"}
        /\ \A c \in Conns :
             (StepOf(c) /\ h'[c].req.kind # "Create") => fs' = fs
        /\ fs.dirs \subseteq fs'.dirs
        /\ DOMAIN fs.files \subseteq DOMAIN fs'.files ]_vars

\* a line the parser rejects has been answered with an error while the
\* storage holds two records
C19_Witness ==
    \E c \in Conns :
      /\ Decoded(c)
      /\ h[c].req = NoRequest
      /\ pc[c] = "closed"
      /\ h[c].resp[1].tag = "Error"
      /\ Cardinality(DOMAIN fs.files) = 2

====
